---- MODULE Spec2Model ----
(***************************************************************************)
(* A model of object_mutex.hpp: obj_mutex<T, MTX_T> (a value v_ bound to   *)
(* the lock mtx_ that protects it) and its three accessor types,           *)
(* obj_lock_guard, obj_unique_lock and obj_shared_lock.                    *)
(*                                                                         *)
(* MTX_T is taken to be a reader/writer lock (std::shared_mutex): the      *)
(* exclusive-only lock types are the sub-case in which no shared entry     *)
(* point is called.  Threads are execution contexts that can be suspended  *)
(* inside a blocking acquisition; handles live in numbered slots and can   *)
(* be used by any thread that is not suspended.                            *)
(***************************************************************************)
EXTENDS Integers, FiniteSets, TLC

\* ------------------------------------------------------------------ bounds
NThreads == 2
NObj == 2
NHandles == 2
MaxVal == 1

Values == 0..MaxVal
\* nullptr, for the mutex pointer of the std base class and for p_om_
Null == 0

VARIABLES
    alive,  \* alive[o]: the obj_mutex in slot o has been constructed
    moved,  \* history: the obj_mutex slots whose v_ was the source of a
            \*         std::move and has not been given a value since
    mtx,    \* mtx[o]: obj_mutex::mtx_, [excl : BOOLEAN, shared : Nat, has]: its
            \*         state, and the optional member functions its type MTX_T has
    v,      \* v[o]: obj_mutex::v_
    hnd,    \* hnd[h]: the holder in slot h, [kind, pm, owns, om]: a handle
            \*         ("guard", "unique", "shared"), or a hold that a caller took
            \*         with obj_mutex::lock() ("rawx") or lock_shared() ("raws")
            \*         and has to give back itself; "none" for a free slot
    pc,     \* pc[t]: the call thread t is inside, [op, k, h, o, d, snap, first]
    ev      \* outcome of the last call that returned:
            \*         [op, h, o, res, val, after]

vars == <<alive, moved, mtx, v, hnd, pc, ev>>

\* the threads, obj_mutex slots and handle slots there are
Threads == DOMAIN pc
Objs == DOMAIN alive
Handles == DOMAIN hnd

\* ------------------------------------------------- the lock primitive MTX_T
\* the member functions a lock type may have besides lock(), try_lock() and
\* unlock()
MtxMembers ==
    {"try_lock_for", "try_lock_until", "lock_shared", "try_lock_shared",
     "unlock_shared", "try_lock_shared_for", "try_lock_shared_until", "native_handle"}
\* a default-constructed lock of a type that has them all
MtxFree == [excl |-> FALSE, shared |-> 0, has |-> MtxMembers]
CanLock(m) == ~m.excl /\ m.shared = 0
CanLockShared(m) == ~m.excl
StdLock(M, o) == [M EXCEPT ![o].excl = TRUE]
StdUnlock(M, o) == [M EXCEPT ![o].excl = FALSE]
StdLockShared(M, o) == [M EXCEPT ![o].shared = @ + 1]
StdUnlockShared(M, o) == [M EXCEPT ![o].shared = @ - 1]

\* ------------------------------------------------------------ thread state
Idle == [op |-> "idle", k |-> "-", h |-> Null, o |-> Null, d |-> Null, snap |-> 0,
         first |-> Null]
IsIdle(t) == pc[t].op = "idle"
\* a handle slot, or an object, that a suspended or running call is working on
BusyH(h) == \E t \in Threads : pc[t].h = h
BusyO(o) == \E t \in Threads : pc[t].o = o \/ pc[t].d = o

\* -------------------------------------------------------------- outcomes
Quiet == [op |-> "-", h |-> Null, o |-> Null, res |-> "-", val |-> 0, after |-> "-"]
Outcome(op, h, o, res) ==
    [op |-> op, h |-> h, o |-> o, res |-> res, val |-> 0, after |-> "-"]
\* the outcome of a try_lock() also tells whether the call before it, on the
\* same obj_mutex, was the release of a handle
AfterRelease(o) == IF ev.res = "released" /\ ev.o = o THEN "release" ELSE "-"
\* the calling thread suspends inside a blocking acquisition
Block(t, op, k, h, o) ==
    /\ pc' = [pc EXCEPT ![t] = [Idle EXCEPT !.op = op, !.k = k, !.h = h, !.o = o]]
    /\ ev' = Quiet
    /\ UNCHANGED <<alive, moved, mtx, v, hnd>>

\* ---------------------------------------------------------------- handles
NoHandle == [kind |-> "none", pm |-> Null, owns |-> FALSE, om |-> Null]
Handle(k, o, owns) == [kind |-> k, pm |-> o, owns |-> owns, om |-> o]
IsShared(k) == k \in {"shared", "raws"}
FreeSlot(h) == hnd[h].kind = "none" /\ ~BusyH(h)
Usable(k, h) == hnd[h].kind = k /\ ~BusyH(h)

\* ------------------------------------------------------- obj_mutex: life
\* obj_mutex(U&& src): mtx_() default-constructed, v_ from the argument
Construct(o, x) ==
    /\ ~alive[o] /\ ~BusyO(o)
    /\ alive' = [alive EXCEPT ![o] = TRUE]
    /\ mtx' = [mtx EXCEPT ![o] = MtxFree]
    /\ v' = [v EXCEPT ![o] = x]
    /\ ev' = Quiet
    /\ UNCHANGED <<moved, hnd, pc>>

\* ~obj_mutex(): the caller destroys it only when nothing refers to it
Destruct(o) ==
    /\ alive[o] /\ ~BusyO(o)
    /\ mtx[o] = MtxFree
    /\ \A h \in Handles : hnd[h].pm # o /\ hnd[h].om # o
    /\ alive' = [alive EXCEPT ![o] = FALSE]
    /\ moved' = moved \ {o}
    /\ v' = [v EXCEPT ![o] = 0]
    /\ ev' = Quiet
    /\ UNCHANGED <<mtx, hnd, pc>>

\* obj_mutex(const obj_mutex& src): std::lock_guard lock(src.mtx_) is taken
CopyLocked(t, s, d) ==
    /\ mtx' = StdLock(mtx, s)
    /\ pc' = [pc EXCEPT ![t] = [Idle EXCEPT !.op = "copy.locked", !.o = s,
                                            !.d = d, !.snap = v[s]]]
    /\ ev' = Quiet
    /\ UNCHANGED <<alive, moved, v, hnd>>

\* a copy constructor that takes the source's lock as a reader would
CopyCtor_shared(t, s, d) ==
    /\ IsIdle(t) /\ alive[s] /\ ~alive[d] /\ ~BusyO(d) /\ s # d
    /\ IF CanLockShared(mtx[s])
       THEN CopyLocked(t, s, d)
       ELSE /\ pc' = [pc EXCEPT ![t] = [Idle EXCEPT !.op = "copy.wait", !.o = s, !.d = d]]
            /\ ev' = Quiet
            /\ UNCHANGED <<alive, moved, mtx, v, hnd>>

\* obj_mutex(const obj_mutex& src): entry, up to the lock_guard's acquisition
CopyCtor(t, s, d) ==
    /\ IsIdle(t) /\ alive[s] /\ ~alive[d] /\ ~BusyO(d) /\ s # d
    /\ IF CanLock(mtx[s])
       THEN CopyLocked(t, s, d)
       ELSE /\ pc' = [pc EXCEPT ![t] = [Idle EXCEPT !.op = "copy.wait", !.o = s, !.d = d]]
            /\ ev' = Quiet
            /\ UNCHANGED <<alive, moved, mtx, v, hnd>>

\* the suspended lock_guard acquisition of the copy constructor completes
CopyCtorWake(t) ==
    /\ pc[t].op = "copy.wait"
    /\ CanLock(mtx[pc[t].o])
    /\ CopyLocked(t, pc[t].o, pc[t].d)

\* v_ = src.v_; then the lock_guard is destroyed and the constructor returns
CopyCtorBody(t) ==
    /\ pc[t].op = "copy.locked"
    /\ v' = [v EXCEPT ![pc[t].d] = v[pc[t].o]]
    /\ mtx' = [StdUnlock(mtx, pc[t].o) EXCEPT ![pc[t].d] = MtxFree]
    /\ alive' = [alive EXCEPT ![pc[t].d] = TRUE]
    /\ pc' = [pc EXCEPT ![t] = Idle]
    /\ ev' = [Outcome("copy_ctor", Null, pc[t].d, "ok") EXCEPT !.val = pc[t].snap]
    /\ UNCHANGED <<moved, hnd>>

\* what std::move leaves in a value of type T: the value itself (int) or the
\* empty state of the type (std::unique_ptr)
Empty == 0
MovedOut(x) == {x, Empty}

\* obj_mutex(obj_mutex&& src): std::lock_guard lock(src.mtx_) is taken
MoveLocked(t, s, d) ==
    /\ mtx' = StdLock(mtx, s)
    /\ pc' = [pc EXCEPT ![t] = [Idle EXCEPT !.op = "move.locked", !.o = s, !.d = d]]
    /\ ev' = Quiet
    /\ UNCHANGED <<alive, moved, v, hnd>>

\* a move constructor that goes on without the source's lock being free
MoveCtor_nowait(t, s, d) ==
    /\ IsIdle(t) /\ alive[s] /\ ~alive[d] /\ ~BusyO(d) /\ s # d
    /\ MoveLocked(t, s, d)

\* obj_mutex(obj_mutex&& src): entry, up to the lock_guard's acquisition
MoveCtor(t, s, d) ==
    /\ IsIdle(t) /\ alive[s] /\ ~alive[d] /\ ~BusyO(d) /\ s # d
    /\ IF CanLock(mtx[s])
       THEN MoveLocked(t, s, d)
       ELSE /\ pc' = [pc EXCEPT ![t] = [Idle EXCEPT !.op = "move.wait", !.o = s, !.d = d]]
            /\ ev' = Quiet
            /\ UNCHANGED <<alive, moved, mtx, v, hnd>>

MoveCtorWake(t) ==
    /\ pc[t].op = "move.wait"
    /\ CanLock(mtx[pc[t].o])
    /\ MoveLocked(t, pc[t].o, pc[t].d)

\* v_ = std::move(src.v_); then the lock_guard is destroyed
MoveCtorBody(t) ==
    /\ pc[t].op = "move.locked"
    /\ \E y \in MovedOut(v[pc[t].o]) :
          v' = [v EXCEPT ![pc[t].d] = v[pc[t].o], ![pc[t].o] = y]
    /\ moved' = (moved \ {pc[t].d}) \cup {pc[t].o}
    /\ mtx' = [StdUnlock(mtx, pc[t].o) EXCEPT ![pc[t].d] = MtxFree]
    /\ alive' = [alive EXCEPT ![pc[t].d] = TRUE]
    /\ pc' = [pc EXCEPT ![t] = Idle]
    /\ ev' = [Outcome("move_ctor_om", Null, pc[t].d, "ok") EXCEPT !.val = v[pc[t].o]]
    /\ UNCHANGED hnd

\* ---------------------------------------------------- obj_mutex: assignment
\* operator=(const obj_mutex&) and operator=(obj_mutex&&) (mode "copy" and
\* "move"), and their converting forms (conv), whose source is an obj_mutex
\* of another type and which have no test for this == &src
AssignModes == {"copy", "move"}
\* an assignment without the test for this == &src
Assign_unchecked(t, mode, conv, d, s) ==
    /\ IsIdle(t) /\ alive[d] /\ alive[s]
    /\ conv => d # s
    /\ pc' = [pc EXCEPT ![t] = [Idle EXCEPT !.op = "asg.lock", !.k = mode,
                                            !.o = s, !.d = d, !.first = d]]
    /\ ev' = Quiet
    /\ UNCHANGED <<alive, moved, mtx, v, hnd>>

Assign(t, mode, conv, d, s) ==
    /\ IsIdle(t) /\ alive[d] /\ alive[s]
    /\ conv => d # s
    /\ IF d = s
       THEN /\ ev' = Outcome(mode, Null, d, "self")
            /\ UNCHANGED <<alive, moved, mtx, v, hnd, pc>>
       ELSE /\ pc' = [pc EXCEPT ![t] = [Idle EXCEPT !.op = "asg.lock", !.k = mode,
                                                   !.o = s, !.d = d, !.first = d]]
            /\ ev' = Quiet
            /\ UNCHANGED <<alive, moved, mtx, v, hnd>>

\* std::scoped_lock lock(mtx_, src.mtx_) is std::lock(mtx_, src.mtx_): lock
\* one of the two, try the other, on failure unlock and start again with
\* the one that was busy
AsgOther(t) == IF pc[t].first = pc[t].d THEN pc[t].o ELSE pc[t].d

\* locks[first].lock()
AsgLock(t) ==
    /\ pc[t].op = "asg.lock"
    /\ CanLock(mtx[pc[t].first])
    /\ mtx' = StdLock(mtx, pc[t].first)
    /\ pc' = [pc EXCEPT ![t].op = "asg.try"]
    /\ ev' = Quiet
    /\ UNCHANGED <<alive, moved, v, hnd>>

\* a second acquisition that does not look whether the lock is free
AsgTryOK_blind(t) ==
    /\ pc[t].op = "asg.try"
    /\ mtx' = StdLock(mtx, AsgOther(t))
    /\ pc' = [pc EXCEPT ![t].op = "asg.locked"]
    /\ ev' = Quiet
    /\ UNCHANGED <<alive, moved, v, hnd>>

\* locks[idx].try_lock() succeeds: both are held
AsgTryOK(t) ==
    /\ pc[t].op = "asg.try"
    /\ CanLock(mtx[AsgOther(t)])
    /\ mtx' = StdLock(mtx, AsgOther(t))
    /\ pc' = [pc EXCEPT ![t].op = "asg.locked"]
    /\ ev' = Quiet
    /\ UNCHANGED <<alive, moved, v, hnd>>

\* a second acquisition that waits for the lock with the first one in hand
AsgTryFail_holding(t) ==
    /\ pc[t].op = "asg.try"
    /\ ~CanLock(mtx[AsgOther(t)])
    /\ UNCHANGED vars

\* locks[idx].try_lock() fails
AsgTryFail(t) ==
    /\ pc[t].op = "asg.try"
    /\ ~CanLock(mtx[AsgOther(t)])
    /\ pc' = [pc EXCEPT ![t].op = "asg.backoff"]
    /\ ev' = Quiet
    /\ UNCHANGED <<alive, moved, mtx, v, hnd>>

\* a retry that goes for the other lock without giving the first one back
AsgBackoff_keeping(t) ==
    /\ pc[t].op = "asg.backoff"
    /\ pc' = [pc EXCEPT ![t].op = "asg.lock", ![t].first = AsgOther(t)]
    /\ ev' = Quiet
    /\ UNCHANGED <<alive, moved, mtx, v, hnd>>

\* locks[first].unlock(); first = idx
AsgBackoff(t) ==
    /\ pc[t].op = "asg.backoff"
    /\ mtx' = StdUnlock(mtx, pc[t].first)
    /\ pc' = [pc EXCEPT ![t].op = "asg.lock", ![t].first = AsgOther(t)]
    /\ ev' = Quiet
    /\ UNCHANGED <<alive, moved, v, hnd>>

\* an assignment that returns with the source's lock still locked
AsgBody_leaking(t) ==
    /\ pc[t].op = "asg.locked"
    /\ LET d == pc[t].d
           s == pc[t].o
       IN /\ IF pc[t].k = "move"
             THEN /\ \E y \in MovedOut(v[s]) : v' = [v EXCEPT ![d] = v[s], ![s] = y]
                  /\ moved' = (moved \ {d}) \cup {s}
             ELSE /\ v' = [v EXCEPT ![d] = v[s]]
                  /\ moved' = moved \ {d}
          /\ mtx' = StdUnlock(mtx, d)
          /\ ev' = [Outcome(pc[t].k, Null, d, "ok") EXCEPT !.val = v[s]]
    /\ pc' = [pc EXCEPT ![t] = Idle]
    /\ UNCHANGED <<alive, hnd>>

\* v_ = src.v_ or v_ = std::move(src.v_); return *this: the scoped_lock is
\* destroyed and unlocks both
AsgBody(t) ==
    /\ pc[t].op = "asg.locked"
    /\ LET d == pc[t].d
           s == pc[t].o
       IN /\ IF pc[t].k = "move"
             THEN /\ \E y \in MovedOut(v[s]) : v' = [v EXCEPT ![d] = v[s], ![s] = y]
                  /\ moved' = (moved \ {d}) \cup {s}
             ELSE /\ v' = [v EXCEPT ![d] = v[s]]
                  /\ moved' = moved \ {d}
          /\ mtx' = StdUnlock(StdUnlock(mtx, d), s)
          /\ ev' = [Outcome(pc[t].k, Null, d, "ok") EXCEPT !.val = v[s]]
    /\ pc' = [pc EXCEPT ![t] = Idle]
    /\ UNCHANGED <<alive, hnd>>

\* ------------------------------------------- obj_mutex: the lock's entry points
\* mtx_.lock() or mtx_.lock_shared() has returned: the caller holds the lock
OmLockDone(t, k, h, o) ==
    /\ mtx' = IF IsShared(k) THEN StdLockShared(mtx, o) ELSE StdLock(mtx, o)
    /\ hnd' = [hnd EXCEPT ![h] = Handle(k, o, TRUE)]
    /\ pc' = [pc EXCEPT ![t] = Idle]
    /\ ev' = Quiet
    /\ UNCHANGED <<alive, moved, v>>

\* void lock(): mtx_.lock()
OmLock(t, h, o) ==
    /\ IsIdle(t) /\ FreeSlot(h) /\ alive[o]
    /\ IF CanLock(mtx[o]) THEN OmLockDone(t, "rawx", h, o)
                          ELSE Block(t, "om.lock", "rawx", h, o)

OmLockWake(t) ==
    /\ pc[t].op = "om.lock"
    /\ CanLock(mtx[pc[t].o])
    /\ OmLockDone(t, "rawx", pc[t].h, pc[t].o)

\* a try_lock() that reports success without looking at what mtx_ answered
obj_mutex_try_lock_always(o) == TRUE

\* bool try_lock(): return mtx_.try_lock()
obj_mutex_try_lock(o) == CanLock(mtx[o])

\* on success the hold is recorded in the free slot h
OmTryLock(h, o) ==
    /\ alive[o]
    /\ IF obj_mutex_try_lock(o)
       THEN /\ FreeSlot(h)
            /\ mtx' = StdLock(mtx, o)
            /\ hnd' = [hnd EXCEPT ![h] = Handle("rawx", o, TRUE)]
            /\ ev' = [Outcome("om.try_lock", h, o, "true") EXCEPT !.after = AfterRelease(o)]
       ELSE /\ ev' = [Outcome("om.try_lock", Null, o, "false") EXCEPT !.after = AfterRelease(o)]
            /\ UNCHANGED <<mtx, hnd>>
    /\ UNCHANGED <<alive, moved, v, pc>>

\* void unlock(): mtx_.unlock(), by the caller that holds the lock
OmUnlock(h) ==
    /\ Usable("rawx", h)
    /\ mtx' = StdUnlock(mtx, hnd[h].pm)
    /\ hnd' = [hnd EXCEPT ![h] = NoHandle]
    /\ ev' = Quiet
    /\ UNCHANGED <<alive, moved, v, pc>>

\* void lock_shared(): mtx_.lock_shared()
OmLockShared(t, h, o) ==
    /\ IsIdle(t) /\ FreeSlot(h) /\ alive[o]
    /\ IF CanLockShared(mtx[o]) THEN OmLockDone(t, "raws", h, o)
                                ELSE Block(t, "om.lock_shared", "raws", h, o)

OmLockSharedWake(t) ==
    /\ pc[t].op = "om.lock_shared"
    /\ CanLockShared(mtx[pc[t].o])
    /\ OmLockDone(t, "raws", pc[t].h, pc[t].o)

\* a try_lock_shared() that asks for the lock exclusively
obj_mutex_try_lock_shared_alone(o) == CanLock(mtx[o])

\* bool try_lock_shared(): return mtx_.try_lock_shared()
obj_mutex_try_lock_shared(o) == CanLockShared(mtx[o])

OmTryLockShared(h, o) ==
    /\ alive[o]
    /\ IF obj_mutex_try_lock_shared(o)
       THEN /\ FreeSlot(h)
            /\ mtx' = StdLockShared(mtx, o)
            /\ hnd' = [hnd EXCEPT ![h] = Handle("raws", o, TRUE)]
            /\ ev' = Outcome("om.try_lock_shared", h, o, "true")
       ELSE /\ ev' = Outcome("om.try_lock_shared", Null, o, "false")
            /\ UNCHANGED <<mtx, hnd>>
    /\ UNCHANGED <<alive, moved, v, pc>>

\* void unlock_shared(): mtx_.unlock_shared(), by a caller that holds it shared
OmUnlockShared(h) ==
    /\ Usable("raws", h)
    /\ mtx' = StdUnlockShared(mtx, hnd[h].pm)
    /\ hnd' = [hnd EXCEPT ![h] = NoHandle]
    /\ ev' = Quiet
    /\ UNCHANGED <<alive, moved, v, pc>>

\* ------------------------------- std::lock_guard / unique_lock / shared_lock
\* the base classes of the three handle types: an exclusive handle goes
\* through lock()/try_lock()/unlock(), a shared one through the *_shared calls
HCanLock(k, m) == IF IsShared(k) THEN CanLockShared(m) ELSE CanLock(m)
HLockM(k, M, o) == IF IsShared(k) THEN StdLockShared(M, o) ELSE StdLock(M, o)
HUnlockM(k, M, o) == IF IsShared(k) THEN StdUnlockShared(M, o) ELSE StdUnlock(M, o)
\* the base-class destructor: if (owns) mutex->unlock()
Release(M, r) == IF r.owns THEN HUnlockM(r.kind, M, r.pm) ELSE M
\* the state a handle is left in when it has been moved from
MovedFrom(r) == [r EXCEPT !.pm = Null, !.owns = FALSE, !.om = Null]

\* X(OM& om) : base(*om.mutex()), p_om_(&om) -- the acquisition has succeeded
HCtorDone(t, k, h, o) ==
    /\ mtx' = HLockM(k, mtx, o)
    /\ hnd' = [hnd EXCEPT ![h] = Handle(k, o, TRUE)]
    /\ pc' = [pc EXCEPT ![t] = Idle]
    /\ ev' = Quiet
    /\ UNCHANGED <<alive, moved, v>>

\* an immediate-mode constructor that returns owning without waiting
HCtor_nowait(t, k, h, o) ==
    /\ IsIdle(t) /\ FreeSlot(h) /\ alive[o]
    /\ HCtorDone(t, k, h, o)

HCtor(t, k, h, o) ==
    /\ IsIdle(t) /\ FreeSlot(h) /\ alive[o]
    /\ IF HCanLock(k, mtx[o]) THEN HCtorDone(t, k, h, o)
                              ELSE Block(t, "ctor", k, h, o)

\* a suspended immediate-mode constructor gets the lock and returns
CtorWake(t) ==
    /\ pc[t].op = "ctor"
    /\ HCanLock(pc[t].k, mtx[pc[t].o])
    /\ HCtorDone(t, pc[t].k, pc[t].h, pc[t].o)

\* X() : base(), p_om_(nullptr)
HDefault(k, h) ==
    /\ FreeSlot(h)
    /\ hnd' = [hnd EXCEPT ![h] = [kind |-> k, pm |-> Null, owns |-> FALSE, om |-> Null]]
    /\ ev' = Quiet
    /\ UNCHANGED <<alive, moved, mtx, v, pc>>

\* a deferred-mode constructor that takes the lock when it is free
HDefer_eager(k, h, o) ==
    /\ FreeSlot(h) /\ alive[o]
    /\ hnd' = [hnd EXCEPT ![h] = Handle(k, o, HCanLock(k, mtx[o]))]
    /\ mtx' = IF HCanLock(k, mtx[o]) THEN HLockM(k, mtx, o) ELSE mtx
    /\ ev' = Outcome("defer_lock", h, o, "ok")
    /\ UNCHANGED <<alive, moved, v, pc>>

\* X(OM& om, std::defer_lock_t) : base(*om.mutex(), std::defer_lock), p_om_(&om)
HDefer(k, h, o) ==
    /\ FreeSlot(h) /\ alive[o]
    /\ hnd' = [hnd EXCEPT ![h] = Handle(k, o, FALSE)]
    /\ ev' = Outcome("defer_lock", h, o, "ok")
    /\ UNCHANGED <<alive, moved, mtx, v, pc>>

\* a try-mode constructor that waits when the lock is busy
HTry_waiting(k, h, o) ==
    /\ FreeSlot(h) /\ alive[o]
    /\ IF HCanLock(k, mtx[o])
       THEN /\ mtx' = HLockM(k, mtx, o)
            /\ hnd' = [hnd EXCEPT ![h] = Handle(k, o, TRUE)]
            /\ ev' = Outcome("try_to_lock", h, o, "true")
            /\ UNCHANGED <<alive, moved, v, pc>>
       ELSE \E t \in Threads : IsIdle(t) /\ Block(t, "ctor", k, h, o)

\* X(OM& om, std::try_to_lock_t) : base(*om.mutex(), std::try_to_lock), p_om_(&om)
HTry(k, h, o) ==
    /\ FreeSlot(h) /\ alive[o]
    /\ IF HCanLock(k, mtx[o])
       THEN /\ mtx' = HLockM(k, mtx, o)
            /\ hnd' = [hnd EXCEPT ![h] = Handle(k, o, TRUE)]
            /\ ev' = Outcome("try_to_lock", h, o, "true")
       ELSE /\ hnd' = [hnd EXCEPT ![h] = Handle(k, o, FALSE)]
            /\ ev' = Outcome("try_to_lock", h, o, "false")
            /\ UNCHANGED mtx
    /\ UNCHANGED <<alive, moved, v, pc>>

\* an adopt-mode constructor that acquires the lock once more
HAdopt_locking(k, h) ==
    /\ Usable(IF IsShared(k) THEN "raws" ELSE "rawx", h)
    /\ hnd' = [hnd EXCEPT ![h] = Handle(k, hnd[h].pm, TRUE)]
    /\ mtx' = HLockM(k, mtx, hnd[h].pm)
    /\ ev' = Outcome("adopt_lock", h, hnd[h].pm, "ok")
    /\ UNCHANGED <<alive, moved, v, pc>>

\* X(OM& om, std::adopt_lock_t) : base(*om.mutex(), std::adopt_lock), p_om_(&om)
\* the caller hands the hold in slot h, which it took with lock() (or, for a
\* shared handle, lock_shared()), over to the new handle
HAdopt(k, h) ==
    /\ Usable(IF IsShared(k) THEN "raws" ELSE "rawx", h)
    /\ hnd' = [hnd EXCEPT ![h] = Handle(k, hnd[h].pm, TRUE)]
    /\ ev' = Outcome("adopt_lock", h, hnd[h].pm, "ok")
    /\ UNCHANGED <<alive, moved, mtx, v, pc>>

\* a move constructor that copies the source and leaves it as it was
HMoveCtor_copying(k, s, d) ==
    /\ Usable(k, s) /\ FreeSlot(d)
    /\ hnd' = [hnd EXCEPT ![d] = hnd[s]]
    /\ ev' = Outcome("move_ctor", d, hnd[s].om, "ok")
    /\ UNCHANGED <<alive, moved, mtx, v, pc>>

\* X(X&& src) : base(std::move(src)), p_om_(src.p_om_) { src.p_om_ = nullptr; }
HMoveCtor(k, s, d) ==
    /\ Usable(k, s) /\ FreeSlot(d)
    /\ hnd' = [hnd EXCEPT ![d] = hnd[s], ![s] = MovedFrom(hnd[s])]
    /\ ev' = Outcome("move_ctor", d, hnd[s].om, "ok")
    /\ UNCHANGED <<alive, moved, mtx, v, pc>>

\* a move assignment that overwrites *this and forgets the lock it held
HMoveAssign_forgetting(k, s, d) ==
    /\ Usable(k, s) /\ Usable(k, d)
    /\ IF s = d
       THEN /\ ev' = Outcome("move_assign", d, hnd[d].pm, "self")
            /\ UNCHANGED <<hnd, mtx>>
       ELSE /\ hnd' = [hnd EXCEPT ![d] = hnd[s], ![s] = MovedFrom(hnd[s])]
            /\ mtx' = mtx
            /\ ev' = Outcome("move_assign", d, hnd[d].pm,
                             IF hnd[d].owns THEN "released" ELSE "nothing")
    /\ UNCHANGED <<alive, moved, v, pc>>

\* X& operator=(X&& src): if (this == &src) return; X(std::move(src)).swap(*this);
\* the temporary leaves with what *this had and its destructor releases that
HMoveAssign(k, s, d) ==
    /\ Usable(k, s) /\ Usable(k, d)
    /\ IF s = d
       THEN /\ ev' = Outcome("move_assign", d, hnd[d].pm, "self")
            /\ UNCHANGED <<hnd, mtx>>
       ELSE /\ hnd' = [hnd EXCEPT ![d] = hnd[s], ![s] = MovedFrom(hnd[s])]
            /\ mtx' = Release(mtx, hnd[d])
            /\ ev' = Outcome("move_assign", d, hnd[d].pm,
                             IF hnd[d].owns THEN "released" ELSE "nothing")
    /\ UNCHANGED <<alive, moved, v, pc>>

\* a swap that exchanges the base-class parts and leaves p_om_ where it was
HSwap_base(k, a, b) ==
    /\ Usable(k, a) /\ Usable(k, b)
    /\ hnd' = [hnd EXCEPT ![a] = [hnd[b] EXCEPT !.om = hnd[a].om],
                          ![b] = [hnd[a] EXCEPT !.om = hnd[b].om]]
    /\ ev' = Outcome("swap", a, hnd[b].pm, "ok")
    /\ UNCHANGED <<alive, moved, mtx, v, pc>>

\* void swap(X& other): base::swap(other); std::swap(p_om_, other.p_om_)
HSwap(k, a, b) ==
    /\ Usable(k, a) /\ Usable(k, b)
    /\ hnd' = [hnd EXCEPT ![a] = hnd[b], ![b] = hnd[a]]
    /\ ev' = Outcome("swap", a, hnd[b].pm, "ok")
    /\ UNCHANGED <<alive, moved, mtx, v, pc>>

HLockDone(t, k, h) ==
    /\ mtx' = HLockM(k, mtx, hnd[h].pm)
    /\ hnd' = [hnd EXCEPT ![h].owns = TRUE]
    /\ pc' = [pc EXCEPT ![t] = Idle]
    /\ ev' = Quiet
    /\ UNCHANGED <<alive, moved, v>>

\* base::lock(): throws std::system_error without a mutex or when already owning
HLock(t, k, h) ==
    /\ IsIdle(t) /\ Usable(k, h)
    /\ IF hnd[h].pm = Null \/ hnd[h].owns
       THEN /\ ev' = Outcome("lock", h, hnd[h].om, "throw")
            /\ UNCHANGED <<alive, moved, mtx, v, hnd, pc>>
       ELSE IF HCanLock(k, mtx[hnd[h].pm])
            THEN HLockDone(t, k, h)
            ELSE Block(t, "lock", k, h, hnd[h].pm)

\* a suspended lock() on a handle gets the lock and returns
LockWake(t) ==
    /\ pc[t].op = "lock"
    /\ HCanLock(pc[t].k, mtx[pc[t].o])
    /\ HLockDone(t, pc[t].k, pc[t].h)

\* base::try_lock(): the same errors; otherwise owns = mutex->try_lock[_shared]()
HTryLock(k, h) ==
    /\ Usable(k, h)
    /\ IF hnd[h].pm = Null \/ hnd[h].owns
       THEN /\ ev' = Outcome("try_lock", h, hnd[h].om, "throw")
            /\ UNCHANGED <<mtx, hnd>>
       ELSE IF HCanLock(k, mtx[hnd[h].pm])
            THEN /\ mtx' = HLockM(k, mtx, hnd[h].pm)
                 /\ hnd' = [hnd EXCEPT ![h].owns = TRUE]
                 /\ ev' = Outcome("try_lock", h, hnd[h].om, "true")
            ELSE /\ ev' = Outcome("try_lock", h, hnd[h].om, "false")
                 /\ UNCHANGED <<mtx, hnd>>
    /\ UNCHANGED <<alive, moved, v, pc>>

\* base::try_lock_for() / try_lock_until() (MTX_T a timed lock): the same
\* errors; otherwise the caller waits until it gets the lock or the time is up
HTryLockFor(t, k, h) ==
    /\ IsIdle(t) /\ Usable(k, h)
    /\ IF hnd[h].pm = Null \/ hnd[h].owns
       THEN /\ ev' = Outcome("try_lock_for", h, hnd[h].om, "throw")
            /\ UNCHANGED <<alive, moved, mtx, v, hnd, pc>>
       ELSE IF HCanLock(k, mtx[hnd[h].pm])
            THEN /\ mtx' = HLockM(k, mtx, hnd[h].pm)
                 /\ hnd' = [hnd EXCEPT ![h].owns = TRUE]
                 /\ ev' = Outcome("try_lock_for", h, hnd[h].om, "true")
                 /\ UNCHANGED <<alive, moved, v, pc>>
            ELSE Block(t, "try_for", k, h, hnd[h].pm)

\* the lock becomes available in time
TryForWake(t) ==
    /\ pc[t].op = "try_for"
    /\ HCanLock(pc[t].k, mtx[pc[t].o])
    /\ mtx' = HLockM(pc[t].k, mtx, pc[t].o)
    /\ hnd' = [hnd EXCEPT ![pc[t].h].owns = TRUE]
    /\ pc' = [pc EXCEPT ![t] = Idle]
    /\ ev' = Outcome("try_lock_for", pc[t].h, pc[t].o, "true")
    /\ UNCHANGED <<alive, moved, v>>

\* the time is up
TryForTimeout(t) ==
    /\ pc[t].op = "try_for"
    /\ pc' = [pc EXCEPT ![t] = Idle]
    /\ ev' = Outcome("try_lock_for", pc[t].h, pc[t].o, "false")
    /\ UNCHANGED <<alive, moved, mtx, v, hnd>>

\* obj_mutex::try_lock_for() / try_lock_until() (k = "rawx") and
\* try_lock_shared_for() / try_lock_shared_until() (k = "raws"): return
\* mtx_.try_lock_for(rel_time) and the like; on success the hold is recorded
\* in the free slot h
OmTimed(t, k, h, o) ==
    /\ IsIdle(t) /\ FreeSlot(h) /\ alive[o]
    /\ IF HCanLock(k, mtx[o])
       THEN /\ mtx' = HLockM(k, mtx, o)
            /\ hnd' = [hnd EXCEPT ![h] = Handle(k, o, TRUE)]
            /\ ev' = Outcome("om.try_lock_for", h, o, "true")
            /\ UNCHANGED <<alive, moved, v, pc>>
       ELSE Block(t, "om.try_for", k, h, o)

OmTryLockFor(t, h, o) == OmTimed(t, "rawx", h, o)
OmTryLockSharedFor(t, h, o) == OmTimed(t, "raws", h, o)

\* the lock becomes available in time
OmTryForWake(t) ==
    /\ pc[t].op = "om.try_for"
    /\ HCanLock(pc[t].k, mtx[pc[t].o])
    /\ mtx' = HLockM(pc[t].k, mtx, pc[t].o)
    /\ hnd' = [hnd EXCEPT ![pc[t].h] = Handle(pc[t].k, pc[t].o, TRUE)]
    /\ pc' = [pc EXCEPT ![t] = Idle]
    /\ ev' = Outcome("om.try_lock_for", pc[t].h, pc[t].o, "true")
    /\ UNCHANGED <<alive, moved, v>>

\* a timed acquisition whose time is never up
OmTryForTimeout_never(t) ==
    /\ pc[t].op = "om.try_for"
    /\ FALSE
    /\ UNCHANGED vars

\* the time is up
OmTryForTimeout(t) ==
    /\ pc[t].op = "om.try_for"
    /\ pc' = [pc EXCEPT ![t] = Idle]
    /\ ev' = Outcome("om.try_lock_for", pc[t].h, pc[t].o, "false")
    /\ UNCHANGED <<alive, moved, mtx, v, hnd>>

\* an unlock() that gives up ownership but leaves the mutex locked
HUnlock_keeping(k, h) ==
    /\ Usable(k, h)
    /\ IF ~hnd[h].owns
       THEN /\ ev' = Outcome("unlock", h, hnd[h].om, "throw")
            /\ UNCHANGED <<mtx, hnd>>
       ELSE /\ mtx' = mtx
            /\ hnd' = [hnd EXCEPT ![h].owns = FALSE]
            /\ ev' = Outcome("unlock", h, hnd[h].om, "released")
    /\ UNCHANGED <<alive, moved, v, pc>>

\* base::unlock(): throws std::system_error when not owning
HUnlock(k, h) ==
    /\ Usable(k, h)
    /\ IF ~hnd[h].owns
       THEN /\ ev' = Outcome("unlock", h, hnd[h].om, "throw")
            /\ UNCHANGED <<mtx, hnd>>
       ELSE /\ mtx' = HUnlockM(k, mtx, hnd[h].pm)
            /\ hnd' = [hnd EXCEPT ![h].owns = FALSE]
            /\ ev' = Outcome("unlock", h, hnd[h].om, "released")
    /\ UNCHANGED <<alive, moved, v, pc>>

\* a destructor that unlocks whenever the handle has a mutex, owning or not
HDtor_unconditional(k, h) ==
    /\ Usable(k, h)
    /\ mtx' = IF hnd[h].pm # Null THEN HUnlockM(k, mtx, hnd[h].pm) ELSE mtx
    /\ hnd' = [hnd EXCEPT ![h] = NoHandle]
    /\ ev' = Outcome("dtor", h, hnd[h].pm, IF mtx' = mtx THEN "nothing" ELSE "released")
    /\ UNCHANGED <<alive, moved, v, pc>>

\* ~X() = default: the base-class destructor runs
HDtor(k, h) ==
    /\ Usable(k, h)
    /\ mtx' = Release(mtx, hnd[h])
    /\ hnd' = [hnd EXCEPT ![h] = NoHandle]
    /\ ev' = Outcome("dtor", h, hnd[h].pm, IF mtx' = mtx THEN "nothing" ELSE "released")
    /\ UNCHANGED <<alive, moved, v, pc>>

\* ---------------------------------------------------------- obj_lock_guard
\* obj_lock_guard(OM& om) : std::lock_guard<mutex_type>(*om.mutex()), p_om_(&om)
GuardCtor(t, h, o) == HCtor(t, "guard", h, o)

\* a guard destructor that leaves the lock locked
GuardDtor_keeping(h) ==
    /\ Usable("guard", h)
    /\ hnd' = [hnd EXCEPT ![h] = NoHandle]
    /\ ev' = Outcome("guard_dtor", h, hnd[h].pm, "released")
    /\ UNCHANGED <<alive, moved, mtx, v, pc>>

\* ~obj_lock_guard() = default: std::lock_guard unlocks, whatever the state
GuardDtor(h) ==
    /\ Usable("guard", h)
    /\ mtx' = StdUnlock(mtx, hnd[h].pm)
    /\ hnd' = [hnd EXCEPT ![h] = NoHandle]
    /\ ev' = Outcome("guard_dtor", h, hnd[h].pm, "released")
    /\ UNCHANGED <<alive, moved, v, pc>>

\* ref(), operator*, operator->: return p_om_->ref(), no check
guard_access(via, r) == "ok"

\* --------------------------------------------------------- obj_unique_lock
UniqueDefault(h) == HDefault("unique", h)
UniqueCtor(t, h, o) == HCtor(t, "unique", h, o)
UniqueDefer(h, o) == HDefer("unique", h, o)
UniqueTry(h, o) == HTry("unique", h, o)
UniqueAdopt(h) == HAdopt("unique", h)
UniqueMoveCtor(s, d) == HMoveCtor("unique", s, d)
UniqueMoveAssign(s, d) == HMoveAssign("unique", s, d)
UniqueSwap(a, b) == HSwap("unique", a, b)
UniqueLock(t, h) == HLock(t, "unique", h)
UniqueTryLock(h) == HTryLock("unique", h)
UniqueTryLockFor(t, h) == HTryLockFor(t, "unique", h)
UniqueUnlock(h) == HUnlock("unique", h)
UniqueDtor(h) == HDtor("unique", h)

\* a ref() that checks p_om_ but not owns_lock()
unique_access_unchecked(via, r) == IF r.om = Null THEN "throw" ELSE "ok"

\* ref(): throws unless owns_lock() and p_om_ != nullptr;
\* operator* and operator->: return p_om_->ref() with no check at all, which
\* dereferences a null pointer when p_om_ is nullptr
unique_access(via, r) ==
    IF via = "ref"
    THEN IF ~r.owns THEN "throw" ELSE IF r.om = Null THEN "throw" ELSE "ok"
    ELSE IF r.om = Null THEN "ub" ELSE "ok"

\* --------------------------------------------------------- obj_shared_lock
SharedDefault(h) == HDefault("shared", h)
SharedCtor(t, h, o) == HCtor(t, "shared", h, o)
SharedDefer(h, o) == HDefer("shared", h, o)
SharedTry(h, o) == HTry("shared", h, o)
SharedAdopt(h) == HAdopt("shared", h)
SharedMoveCtor(s, d) == HMoveCtor("shared", s, d)
SharedMoveAssign(s, d) == HMoveAssign("shared", s, d)
SharedSwap(a, b) == HSwap("shared", a, b)
SharedLock(t, h) == HLock(t, "shared", h)
SharedTryLock(h) == HTryLock("shared", h)
SharedTryLockFor(t, h) == HTryLockFor(t, "shared", h)
SharedUnlock(h) == HUnlock("shared", h)
SharedDtor(h) == HDtor("shared", h)

\* the same three accessors, const only
shared_access(via, r) ==
    IF via = "ref"
    THEN IF ~r.owns THEN "throw" ELSE IF r.om = Null THEN "throw" ELSE "ok"
    ELSE IF r.om = Null THEN "ub" ELSE "ok"

\* ------------------------------------------------- access to the value v_
Accessors == {"ref", "star", "arrow"}
\* owns_lock() of the handle, for the lock of the obj_mutex it points to
Holding(r) == r.kind # "none" /\ r.owns /\ r.pm # Null /\ r.pm = r.om

AccessResult(via, r) ==
    CASE r.kind = "guard" -> guard_access(via, r)
      [] r.kind = "unique" -> unique_access(via, r)
      [] r.kind = "shared" -> shared_access(via, r)

\* a thread calls an accessor of handle h and reads through what it returns:
\* v_ of the obj_mutex that p_om_ points to, or anything through a null p_om_
Read(h, via) ==
    /\ hnd[h].kind \in {"guard", "unique", "shared"} /\ ~BusyH(h)
    /\ LET r == hnd[h]
           res == AccessResult(via, r)
           e == Outcome(via, h, r.om, res)
       IN CASE res = "ok" -> ev' = [e EXCEPT !.val = v[r.om]]
            [] res = "throw" -> ev' = e
            [] res = "ub" -> \E x \in Values : ev' = [e EXCEPT !.val = x]
    /\ UNCHANGED <<alive, moved, mtx, v, hnd, pc>>

\* a thread calls a non-const accessor of handle h and assigns x through what
\* it returns; through a null p_om_ the store lands anywhere, or nowhere
Write(h, via, x) ==
    /\ hnd[h].kind \in {"guard", "unique"} /\ ~BusyH(h)
    /\ LET r == hnd[h]
           res == AccessResult(via, r)
       IN /\ ev' = [Outcome(via, h, r.om, res) EXCEPT !.val = x]
          /\ CASE res = "ok" -> v' = [v EXCEPT ![r.om] = x]
               [] res = "throw" -> v' = v
               [] res = "ub" -> \/ v' = v
                                \/ \E o \in Objs : alive[o] /\ v' = [v EXCEPT ![o] = x]
          /\ moved' = IF res = "ok" THEN moved \ {r.om} ELSE moved
    /\ UNCHANGED <<alive, mtx, hnd, pc>>

Init ==
    /\ alive = [o \in 1..NObj |-> o = 1]
    /\ moved = {}
    /\ mtx = [o \in 1..NObj |-> MtxFree]
    /\ \E x \in Values : v = [o \in 1..NObj |-> IF o = 1 THEN x ELSE 0]
    /\ hnd = [h \in 1..NHandles |-> NoHandle]
    /\ pc = [t \in 1..NThreads |-> Idle]
    /\ ev = Quiet
\* some thread is running, to make a call that cannot suspend
AnyIdle == \E t \in Threads : IsIdle(t)

Next ==
    \/ \E o \in Objs, x \in Values : AnyIdle /\ Construct(o, x)
    \/ \E o \in Objs : AnyIdle /\ Destruct(o)
    \/ \E t \in Threads, s \in Objs, d \in Objs : CopyCtor(t, s, d)
    \/ \E t \in Threads : CopyCtorWake(t)
    \/ \E t \in Threads : CopyCtorBody(t)
    \/ \E t \in Threads, h \in Handles, o \in Objs : OmLock(t, h, o)
    \/ \E t \in Threads : OmLockWake(t)
    \/ \E h \in Handles, o \in Objs : AnyIdle /\ OmTryLock(h, o)
    \/ \E h \in Handles : AnyIdle /\ OmUnlock(h)
    \/ \E t \in Threads, h \in Handles, o \in Objs : OmLockShared(t, h, o)
    \/ \E t \in Threads : OmLockSharedWake(t)
    \/ \E h \in Handles, o \in Objs : AnyIdle /\ OmTryLockShared(h, o)
    \/ \E h \in Handles : AnyIdle /\ OmUnlockShared(h)
    \/ \E t \in Threads, h \in Handles, o \in Objs : GuardCtor(t, h, o)
    \/ \E h \in Handles : AnyIdle /\ GuardDtor(h)
    \/ \E h \in Handles : AnyIdle /\ UniqueDefault(h)
    \/ \E t \in Threads, h \in Handles, o \in Objs : UniqueCtor(t, h, o)
    \/ \E h \in Handles, o \in Objs : AnyIdle /\ UniqueDefer(h, o)
    \/ \E h \in Handles, o \in Objs : AnyIdle /\ UniqueTry(h, o)
    \/ \E h \in Handles : AnyIdle /\ UniqueAdopt(h)
    \/ \E s \in Handles, d \in Handles : AnyIdle /\ UniqueMoveCtor(s, d)
    \/ \E s \in Handles, d \in Handles : AnyIdle /\ UniqueMoveAssign(s, d)
    \/ \E a \in Handles, b \in Handles : AnyIdle /\ UniqueSwap(a, b)
    \/ \E t \in Threads, h \in Handles : UniqueLock(t, h)
    \/ \E h \in Handles : AnyIdle /\ UniqueTryLock(h)
    \/ \E h \in Handles : AnyIdle /\ UniqueUnlock(h)
    \/ \E h \in Handles : AnyIdle /\ UniqueDtor(h)
    \/ \E h \in Handles : AnyIdle /\ SharedDefault(h)
    \/ \E t \in Threads, h \in Handles, o \in Objs : SharedCtor(t, h, o)
    \/ \E h \in Handles, o \in Objs : AnyIdle /\ SharedDefer(h, o)
    \/ \E h \in Handles, o \in Objs : AnyIdle /\ SharedTry(h, o)
    \/ \E h \in Handles : AnyIdle /\ SharedAdopt(h)
    \/ \E s \in Handles, d \in Handles : AnyIdle /\ SharedMoveCtor(s, d)
    \/ \E s \in Handles, d \in Handles : AnyIdle /\ SharedMoveAssign(s, d)
    \/ \E a \in Handles, b \in Handles : AnyIdle /\ SharedSwap(a, b)
    \/ \E t \in Threads, h \in Handles : SharedLock(t, h)
    \/ \E h \in Handles : AnyIdle /\ SharedTryLock(h)
    \/ \E h \in Handles : AnyIdle /\ SharedUnlock(h)
    \/ \E h \in Handles : AnyIdle /\ SharedDtor(h)
    \/ \E t \in Threads : CtorWake(t)
    \/ \E t \in Threads : LockWake(t)
    \/ \E t \in Threads, h \in Handles : UniqueTryLockFor(t, h)
    \/ \E t \in Threads, h \in Handles : SharedTryLockFor(t, h)
    \/ \E t \in Threads : TryForWake(t)
    \/ \E t \in Threads : TryForTimeout(t)
    \/ \E h \in Handles, via \in Accessors : AnyIdle /\ Read(h, via)
    \/ \E h \in Handles, via \in Accessors, x \in Values : AnyIdle /\ Write(h, via, x)

Spec == Init /\ [][Next]_vars

\* a suspended acquisition is resumed when the lock it waits for is available
\* again and again, and a running copy constructor runs on
Resume(t) ==
    \/ CtorWake(t) \/ LockWake(t) \/ OmLockWake(t) \/ OmLockSharedWake(t)
    \/ CopyCtorWake(t) \/ CopyCtorBody(t)
    \/ TryForWake(t) \/ TryForTimeout(t)
FairSpec == Init /\ [][Next]_vars /\ \A t \in 1..NThreads : SF_vars(Resume(t))

\* ----------------------------------------------------------------------
\* The value operations of obj_mutex (construction, copy and move
\* construction, copy and move assignment) among threads that also take and
\* give back obj_lock_guards and access the values through them.
AsgNext ==
    \/ \E o \in Objs, x \in Values : AnyIdle /\ Construct(o, x)
    \/ \E o \in Objs : AnyIdle /\ Destruct(o)
    \/ \E t \in Threads, s \in Objs, d \in Objs : CopyCtor(t, s, d)
    \/ \E t \in Threads : CopyCtorWake(t)
    \/ \E t \in Threads : CopyCtorBody(t)
    \/ \E t \in Threads, s \in Objs, d \in Objs : MoveCtor(t, s, d)
    \/ \E t \in Threads : MoveCtorWake(t)
    \/ \E t \in Threads : MoveCtorBody(t)
    \/ \E t \in Threads, mode \in AssignModes, conv \in BOOLEAN, d \in Objs, s \in Objs :
          Assign(t, mode, conv, d, s)
    \/ \E t \in Threads : AsgLock(t)
    \/ \E t \in Threads : AsgTryOK(t)
    \/ \E t \in Threads : AsgTryFail(t)
    \/ \E t \in Threads : AsgBackoff(t)
    \/ \E t \in Threads : AsgBody(t)
    \/ \E t \in Threads, h \in Handles, o \in Objs : GuardCtor(t, h, o)
    \/ \E t \in Threads : CtorWake(t)
    \/ \E h \in Handles : AnyIdle /\ GuardDtor(h)
    \/ \E h \in Handles, via \in Accessors : AnyIdle /\ Read(h, via)
    \/ \E h \in Handles, via \in Accessors, x \in Values : AnyIdle /\ Write(h, via, x)

AsgSpec == Init /\ [][AsgNext]_vars

\* ----------------------------------------------------------------------
\* Threads that hold no guard and have each called one assignment between
\* two obj_mutex: thread t assigns to instance t from any other instance, so
\* that a = b runs against b = a, and a = b, b = c, c = a run against each
\* other.  The start is the state in which every thread has entered its
\* operator= (what Assign leaves when d # s).
RingSize == 3
Entered(t, mode, s) ==
    [Idle EXCEPT !.op = "asg.lock", !.k = mode, !.o = s, !.d = t, !.first = t]
RingInit ==
    /\ alive = [o \in 1..RingSize |-> TRUE]
    /\ moved = {}
    /\ mtx = [o \in 1..RingSize |-> MtxFree]
    /\ v = [o \in 1..RingSize |-> Empty]
    /\ hnd = << >>
    /\ \E mode \in [1..RingSize -> AssignModes], s \in [1..RingSize -> 1..RingSize] :
          /\ \A t \in 1..RingSize : s[t] # t
          /\ pc = [t \in 1..RingSize |-> Entered(t, mode[t], s[t])]
    /\ ev = Quiet

AsgStep(t) == AsgLock(t) \/ AsgTryOK(t) \/ AsgTryFail(t) \/ AsgBackoff(t) \/ AsgBody(t)

RingNext ==
    \/ \E t \in Threads : AsgLock(t)
    \/ \E t \in Threads : AsgTryOK(t)
    \/ \E t \in Threads : AsgTryFail(t)
    \/ \E t \in Threads : AsgBackoff(t)
    \/ \E t \in Threads : AsgBody(t)

RingSpec == RingInit /\ [][RingNext]_vars

\* every thread keeps running, and an acquisition that is possible again
\* and again (the blocking lock() of std::lock, its try_lock()) is not lost
\* every time
RingFairSpec ==
    /\ RingInit /\ [][RingNext]_vars
    /\ \A t \in 1..RingSize :
          /\ WF_vars(AsgStep(t))
          /\ SF_vars(AsgLock(t))
          /\ SF_vars(AsgTryOK(t))

\* ----------------------------------------------------------------------
\* The bounded-wait acquisitions, on obj_mutex and on deferred handles, among
\* callers that take and give back the lock in both modes (MTX_T a timed
\* reader/writer lock, std::shared_timed_mutex).
TimedNext ==
    \/ \E o \in Objs, x \in Values : AnyIdle /\ Construct(o, x)
    \/ \E o \in Objs : AnyIdle /\ Destruct(o)
    \/ \E t \in Threads, h \in Handles, o \in Objs : OmTryLockFor(t, h, o)
    \/ \E t \in Threads, h \in Handles, o \in Objs : OmTryLockSharedFor(t, h, o)
    \/ \E t \in Threads : OmTryForWake(t)
    \/ \E t \in Threads : OmTryForTimeout(t)
    \/ \E h \in Handles : AnyIdle /\ OmUnlock(h)
    \/ \E h \in Handles : AnyIdle /\ OmUnlockShared(h)
    \/ \E h \in Handles, o \in Objs : AnyIdle /\ UniqueDefer(h, o)
    \/ \E h \in Handles, o \in Objs : AnyIdle /\ SharedDefer(h, o)
    \/ \E t \in Threads, h \in Handles : UniqueTryLockFor(t, h)
    \/ \E t \in Threads, h \in Handles : SharedTryLockFor(t, h)
    \/ \E t \in Threads : TryForWake(t)
    \/ \E t \in Threads : TryForTimeout(t)
    \/ \E h \in Handles : AnyIdle /\ UniqueUnlock(h)
    \/ \E h \in Handles : AnyIdle /\ SharedUnlock(h)
    \/ \E h \in Handles : AnyIdle /\ UniqueDtor(h)
    \/ \E h \in Handles : AnyIdle /\ SharedDtor(h)

TimedSpec == Init /\ [][TimedNext]_vars

\* a thread inside a bounded wait keeps running: it gets the lock or its
\* time runs out
TimedReturn(t) ==
    TryForWake(t) \/ TryForTimeout(t) \/ OmTryForWake(t) \/ OmTryForTimeout(t)
TimedFairSpec ==
    Init /\ [][TimedNext]_vars /\ \A t \in 1..NThreads : WF_vars(TimedReturn(t))

\* ----------------------------------------------------------------------
\* TestObjMutex.CanHandleWithStdConditionVariable: a waiter thread runs
\*     obj_unique_lock lock(om);
\*     cv.wait(lock, [&lock]() { return lock.ref() == 0; });
\*     lock.ref() = 1;
\* against the setter (the test's main thread), which runs
\*     { obj_lock_guard lock(om); lock.ref() = 0; }
\*     cv.notify_all(); future.get();
\*     obj_lock_guard lock2(om); lock2.ref()
\* on obj_mutex<int> om(42), while a third thread runs, a few times over,
\*     { obj_lock_guard lock(om); lock.ref(); }
\* cv.wait(lock, pred) is
\* while (!pred()) wait(lock), and wait(lock) gives the mutex of the
\* std::unique_lock base back and suspends in one step, is woken by a
\* notification or spuriously, and takes the mutex again before it returns;
\* the handle itself (owns_lock(), p_om_) is not touched by the wait.
Waiter == 1
Setter == 2
WaiterLock == 1
SetterGuard == 2
Reader == 3
ReaderGuard == 3
ReaderRounds == 2
TheOm == 1
Initial == 42
Wanted == 0
Answer == 1

At(t, op) == pc[t].op = op
Goto(t, op) == pc' = [pc EXCEPT ![t].op = op]

CvInit ==
    /\ alive = <<TRUE>>
    /\ moved = {}
    /\ mtx = <<MtxFree>>
    /\ v = <<Initial>>
    /\ hnd = <<NoHandle, NoHandle, NoHandle>>
    /\ pc = <<[Idle EXCEPT !.op = "w.ctor"], [Idle EXCEPT !.op = "s.guard"],
             [Idle EXCEPT !.op = "r.guard"]>>
    /\ ev = Quiet

\* obj_unique_lock lock(om): returns when it has the lock
WaiterCtor ==
    /\ At(Waiter, "w.ctor") /\ CanLock(mtx[TheOm])
    /\ mtx' = StdLock(mtx, TheOm)
    /\ hnd' = [hnd EXCEPT ![WaiterLock] = Handle("unique", TheOm, TRUE)]
    /\ Goto(Waiter, "w.pred")
    /\ ev' = Quiet
    /\ UNCHANGED <<alive, moved, v>>

\* pred(): lock.ref() == 0; an exception of ref() leaves cv.wait and the task
WaiterPred ==
    /\ At(Waiter, "w.pred")
    /\ LET res == unique_access("ref", hnd[WaiterLock])
       IN /\ ev' = [Outcome("pred", WaiterLock, TheOm, res) EXCEPT !.val = v[TheOm]]
          /\ Goto(Waiter, CASE res # "ok" -> "w.failed"
                            [] res = "ok" /\ v[TheOm] = Wanted -> "w.write"
                            [] OTHER -> "w.wait")
    /\ UNCHANGED <<alive, moved, mtx, v, hnd>>

\* wait(lock): the mutex is given back and the thread suspends
WaiterWait ==
    /\ At(Waiter, "w.wait")
    /\ mtx' = StdUnlock(mtx, TheOm)
    /\ Goto(Waiter, "w.blocked")
    /\ ev' = Quiet
    /\ UNCHANGED <<alive, moved, v, hnd>>

\* a spurious wake-up
WaiterSpurious ==
    /\ At(Waiter, "w.blocked")
    /\ Goto(Waiter, "w.woken")
    /\ ev' = Quiet
    /\ UNCHANGED <<alive, moved, mtx, v, hnd>>

\* a wait that returns to the predicate without taking the mutex again
WaiterReacquire_unlocked ==
    /\ At(Waiter, "w.woken")
    /\ Goto(Waiter, "w.pred")
    /\ ev' = Quiet
    /\ UNCHANGED <<alive, moved, mtx, v, hnd>>

\* the woken thread takes the mutex again; wait(lock) returns
WaiterReacquire ==
    /\ At(Waiter, "w.woken") /\ CanLock(mtx[TheOm])
    /\ mtx' = StdLock(mtx, TheOm)
    /\ Goto(Waiter, "w.pred")
    /\ ev' = Quiet
    /\ UNCHANGED <<alive, moved, v, hnd>>

\* lock.ref() = 1
WaiterWrite ==
    /\ At(Waiter, "w.write")
    /\ LET res == unique_access("ref", hnd[WaiterLock])
       IN /\ ev' = [Outcome("ref", WaiterLock, TheOm, res) EXCEPT !.val = Answer]
          /\ v' = IF res = "ok" THEN [v EXCEPT ![TheOm] = Answer] ELSE v
          /\ Goto(Waiter, IF res = "ok" THEN "w.return" ELSE "w.failed")
    /\ UNCHANGED <<alive, moved, mtx, hnd>>

\* return true: ~obj_unique_lock, then the future is ready
WaiterReturn ==
    /\ At(Waiter, "w.return")
    /\ mtx' = Release(mtx, hnd[WaiterLock])
    /\ hnd' = [hnd EXCEPT ![WaiterLock] = NoHandle]
    /\ Goto(Waiter, "w.done")
    /\ ev' = Quiet
    /\ UNCHANGED <<alive, moved, v>>

\* obj_lock_guard lock(om), and later obj_lock_guard lock2(om)
SetterGuardCtor ==
    /\ At(Setter, "s.guard") \/ At(Setter, "s.guard2")
    /\ CanLock(mtx[TheOm])
    /\ mtx' = StdLock(mtx, TheOm)
    /\ hnd' = [hnd EXCEPT ![SetterGuard] = Handle("guard", TheOm, TRUE)]
    /\ Goto(Setter, IF At(Setter, "s.guard") THEN "s.write" ELSE "s.read")
    /\ ev' = Quiet
    /\ UNCHANGED <<alive, moved, v>>

\* lock.ref() = 0
SetterWrite ==
    /\ At(Setter, "s.write")
    /\ v' = [v EXCEPT ![TheOm] = Wanted]
    /\ Goto(Setter, "s.unlock")
    /\ ev' = [Outcome("ref", SetterGuard, TheOm, guard_access("ref", hnd[SetterGuard]))
                 EXCEPT !.val = Wanted]
    /\ UNCHANGED <<alive, moved, mtx, hnd>>

\* the end of the block: ~obj_lock_guard
SetterUnlock ==
    /\ At(Setter, "s.unlock")
    /\ mtx' = StdUnlock(mtx, TheOm)
    /\ hnd' = [hnd EXCEPT ![SetterGuard] = NoHandle]
    /\ Goto(Setter, "s.notify")
    /\ ev' = Quiet
    /\ UNCHANGED <<alive, moved, v>>

\* cv.notify_all(): every thread suspended in wait() is woken
SetterNotify ==
    /\ At(Setter, "s.notify")
    /\ pc' = [t \in Threads |->
                 IF t = Setter THEN [pc[t] EXCEPT !.op = "s.get"]
                 ELSE IF pc[t].op = "w.blocked" THEN [pc[t] EXCEPT !.op = "w.woken"]
                 ELSE pc[t]]
    /\ ev' = Quiet
    /\ UNCHANGED <<alive, moved, mtx, v, hnd>>

\* future.get(): returns when the task has returned
SetterGet ==
    /\ At(Setter, "s.get") /\ At(Waiter, "w.done")
    /\ Goto(Setter, "s.guard2")
    /\ ev' = Quiet
    /\ UNCHANGED <<alive, moved, mtx, v, hnd>>

\* lock2.ref(): the value the test compares with 1
SetterRead ==
    /\ At(Setter, "s.read")
    /\ ev' = [Outcome("ref", SetterGuard, TheOm, guard_access("ref", hnd[SetterGuard]))
                 EXCEPT !.val = v[TheOm]]
    /\ Goto(Setter, "s.done")
    /\ UNCHANGED <<alive, moved, mtx, v, hnd>>

\* obj_lock_guard lock(om), by the third thread
ReaderGuardCtor ==
    /\ At(Reader, "r.guard") /\ pc[Reader].snap < ReaderRounds
    /\ CanLock(mtx[TheOm])
    /\ mtx' = StdLock(mtx, TheOm)
    /\ hnd' = [hnd EXCEPT ![ReaderGuard] = Handle("guard", TheOm, TRUE)]
    /\ Goto(Reader, "r.read")
    /\ ev' = Quiet
    /\ UNCHANGED <<alive, moved, v>>

\* lock.ref()
ReaderRead ==
    /\ At(Reader, "r.read")
    /\ ev' = [Outcome("ref", ReaderGuard, TheOm, guard_access("ref", hnd[ReaderGuard]))
                 EXCEPT !.val = v[TheOm]]
    /\ Goto(Reader, "r.unlock")
    /\ UNCHANGED <<alive, moved, mtx, v, hnd>>

\* the end of the block: ~obj_lock_guard
ReaderUnlock ==
    /\ At(Reader, "r.unlock")
    /\ mtx' = StdUnlock(mtx, TheOm)
    /\ hnd' = [hnd EXCEPT ![ReaderGuard] = NoHandle]
    /\ pc' = [pc EXCEPT ![Reader].op = "r.guard", ![Reader].snap = @ + 1]
    /\ ev' = Quiet
    /\ UNCHANGED <<alive, moved, v>>

CvNext ==
    \/ WaiterCtor \/ WaiterPred \/ WaiterWait \/ WaiterSpurious \/ WaiterReacquire
    \/ WaiterWrite \/ WaiterReturn
    \/ SetterGuardCtor \/ SetterWrite \/ SetterUnlock \/ SetterNotify \/ SetterGet
    \/ SetterRead
    \/ ReaderGuardCtor \/ ReaderRead \/ ReaderUnlock

CvSpec == CvInit /\ [][CvNext]_vars

\* the threads keep running, a thread that can take the lock again and again
\* is not passed over every time, and spurious wake-ups are not promised
WaiterStep ==
    \/ WaiterCtor \/ WaiterPred \/ WaiterWait \/ WaiterReacquire
    \/ WaiterWrite \/ WaiterReturn
SetterStep ==
    \/ SetterGuardCtor \/ SetterWrite \/ SetterUnlock \/ SetterNotify \/ SetterGet
    \/ SetterRead
ReaderStep == ReaderGuardCtor \/ ReaderRead \/ ReaderUnlock
CvFairSpec ==
    /\ CvInit /\ [][CvNext]_vars
    /\ SF_vars(WaiterStep) /\ SF_vars(SetterStep) /\ SF_vars(ReaderStep)

\* ----------------------------------------------------------------------
\* The member functions of obj_mutex<T, MTX_T> over the lock types MTX_T.
\* is_callable_X<MTX_T>: the expression u->X(...) is well-formed for MTX_T* u
is_callable(M, f) == f \in M

OmMembers ==
    {"lock", "try_lock", "unlock", "mutex"} \cup MtxMembers

\* the trait in the std::enable_if of member f of obj_mutex ("-": none)
Gate_ungated(f) == "-"

Gate(f) ==
    CASE f \in {"lock", "try_lock", "unlock", "mutex"} -> "-"
      [] f \in {"lock_shared", "try_lock_shared", "unlock_shared"} -> "lock_shared"
      [] OTHER -> f

\* obj_mutex<T, MTX_T> has a member f that a call can select
Declared(M, f) == Gate(f) = "-" \/ is_callable(M, Gate(f))

\* what the call om.f(...) comes to: it does not compile because there is no
\* such member, it does not compile because the member's body calls a
\* function MTX_T has not, or it is the call mtx_.f(...) (mutex(): &mtx_)
obj_mutex_call(M, f) ==
    IF ~Declared(M, f) THEN "no member"
    ELSE IF f \in MtxMembers /\ f \notin M THEN "ill-formed"
    ELSE "delegates"

TraitInit ==
    /\ alive = <<TRUE>>
    /\ moved = {}
    /\ \E M \in SUBSET MtxMembers : mtx = <<[MtxFree EXCEPT !.has = M]>>
    /\ v = <<0>>
    /\ hnd = << >>
    /\ pc = <<Idle>>
    /\ ev = Quiet

\* a program names member f of the obj_mutex in slot o
OmCall(o, f) ==
    /\ alive[o]
    /\ ev' = Outcome(f, Null, o, obj_mutex_call(mtx[o].has, f))
    /\ UNCHANGED <<alive, moved, mtx, v, hnd, pc>>

TraitNext == \E o \in Objs, f \in OmMembers : OmCall(o, f)

TraitSpec == TraitInit /\ [][TraitNext]_vars

\* ----------------------------------------------------------------------
\* The value operations of obj_mutex over a reader/writer lock, among callers
\* that take and give back the lock in shared and in exclusive mode.
RwNext ==
    \/ \E o \in Objs, x \in Values : AnyIdle /\ Construct(o, x)
    \/ \E o \in Objs : AnyIdle /\ Destruct(o)
    \/ \E t \in Threads, s \in Objs, d \in Objs : CopyCtor(t, s, d)
    \/ \E t \in Threads : CopyCtorWake(t)
    \/ \E t \in Threads : CopyCtorBody(t)
    \/ \E t \in Threads, s \in Objs, d \in Objs : MoveCtor(t, s, d)
    \/ \E t \in Threads : MoveCtorWake(t)
    \/ \E t \in Threads : MoveCtorBody(t)
    \/ \E t \in Threads, mode \in AssignModes, conv \in BOOLEAN, d \in Objs, s \in Objs :
          Assign(t, mode, conv, d, s)
    \/ \E t \in Threads : AsgLock(t)
    \/ \E t \in Threads : AsgTryOK(t)
    \/ \E t \in Threads : AsgTryFail(t)
    \/ \E t \in Threads : AsgBackoff(t)
    \/ \E t \in Threads : AsgBody(t)
    \/ \E t \in Threads, h \in Handles, o \in Objs : OmLockShared(t, h, o)
    \/ \E t \in Threads : OmLockSharedWake(t)
    \/ \E h \in Handles, o \in Objs : AnyIdle /\ OmTryLockShared(h, o)
    \/ \E h \in Handles : AnyIdle /\ OmUnlockShared(h)
    \/ \E h \in Handles, o \in Objs : AnyIdle /\ OmTryLock(h, o)
    \/ \E h \in Handles : AnyIdle /\ OmUnlock(h)

RwSpec == Init /\ [][RwNext]_vars

\* ======================================================================
\* Vocabulary of the properties
\* ======================================================================
\* the slots that hold the lock of obj_mutex o, exclusively and shared
ExclHolders(o) ==
    {h \in Handles : /\ hnd[h].kind \in {"guard", "unique", "rawx"}
                     /\ hnd[h].owns /\ hnd[h].pm = o}
SharedHolders(o) ==
    {h \in Handles : IsShared(hnd[h].kind) /\ hnd[h].owns /\ hnd[h].pm = o}
\* a movable handle (obj_unique_lock, obj_shared_lock) that is not holding
Movable(h) == hnd[h].kind \in {"unique", "shared"}
NotHolding(h) == Movable(h) /\ ~hnd[h].owns
\* the last call was an accessor of a handle
Accessed == ev.op \in Accessors
\* the threads inside a copy or move constructor that has locked o as its
\* source, or inside an assignment at a point where it has locked o
CopyHolders(o) ==
    {t \in Threads :
        \/ pc[t].op \in {"copy.locked", "move.locked"} /\ pc[t].o = o
        \/ pc[t].op \in {"asg.try", "asg.backoff"} /\ pc[t].first = o
        \/ pc[t].op = "asg.locked" /\ o \in {pc[t].o, pc[t].d}}
ExclHeld(o) == ExclHolders(o) # {} \/ CopyHolders(o) # {}
NoHolder(o) == ~ExclHeld(o) /\ SharedHolders(o) = {}
\* thread t is suspended inside an exclusive acquisition of o
WaitsExcl(t, o) ==
    pc[t].op \in {"ctor", "lock", "om.lock"} /\ ~IsShared(pc[t].k) /\ pc[t].o = o

\* ----------------------------------------------------------------------
\* C1: whenever an accessor (ref(), operator*, operator->) of a guard or lock
\* handle gives access to the protected value, that handle is holding the
\* lock of the obj_mutex at that moment.
C1_AccessOnlyWhileHolding ==
    (Accessed /\ ev.res = "ok") => Holding(hnd[ev.h])

\* ----------------------------------------------------------------------
\* C2: on every obj_mutex there is at any moment at most one exclusive
\* holder (obj_lock_guard, holding obj_unique_lock, lock()/try_lock() caller),
\* and while there is one there is no shared holder (holding
\* obj_shared_lock, lock_shared() caller).
C2_MutualExclusion ==
    \A o \in Objs :
        /\ Cardinality(ExclHolders(o)) <= 1
        /\ ExclHolders(o) # {} => SharedHolders(o) = {}

\* an exclusive holder with a second thread suspended inside an acquisition
\* of the same obj_mutex
C2_Witness ==
    \E o \in Objs, t \in Threads :
        /\ ExclHolders(o) # {}
        /\ pc[t].op \in {"ctor", "lock", "om.lock", "om.lock_shared"}
        /\ pc[t].o = o

\* ----------------------------------------------------------------------
\* C3: ref() on an obj_unique_lock or obj_shared_lock that is not holding
\* throws and changes neither the handle nor the lock nor the value; a
\* lock() that returns on a deferred handle leaves it owning, with ref()
\* answering; and whenever ref() answers, the handle is holding and the
\* answer is the value of the obj_mutex it locked.
RefCall(h) == Read(h, "ref") \/ \E x \in Values : Write(h, "ref", x)
LockReturns(h) ==
    \/ \E t \in Threads : /\ UniqueLock(t, h) \/ SharedLock(t, h)
                          /\ ev'.res # "throw" /\ pc'[t] = Idle
    \/ \E t \in Threads : pc[t].h = h /\ LockWake(t)

C3_RefStep ==
    \A h \in Handles :
        /\ (NotHolding(h) /\ RefCall(h)) =>
              /\ ev'.res = "throw"
              /\ hnd' = hnd /\ mtx' = mtx /\ v' = v
        /\ (NotHolding(h) /\ LockReturns(h)) =>
              /\ hnd'[h].owns
              /\ AccessResult("ref", hnd'[h]) = "ok"
              /\ hnd'[h].om = hnd[h].om /\ v' = v

C3_RefAnswer ==
    (ev.op = "ref" /\ ev.res = "ok") =>
        /\ Holding(hnd[ev.h])
        /\ ev.val = v[hnd[ev.h].pm]

C3_RefRequiresHolding == [][C3_RefStep]_vars /\ []C3_RefAnswer

\* ref() has just thrown on a deferred handle (a lock, but not holding)
C3_Witness ==
    /\ ev.op = "ref" /\ ev.res = "throw"
    /\ NotHolding(ev.h) /\ hnd[ev.h].pm # Null

\* ----------------------------------------------------------------------
\* C4: operator* and operator-> of an obj_unique_lock or obj_shared_lock
\* that is not holding signal an error: they neither return a reference to
\* the value nor dereference a null back-reference.
C4_DerefSignalsError ==
    (ev.op \in {"star", "arrow"} /\ NotHolding(ev.h)) => ev.res = "throw"

\* ----------------------------------------------------------------------
\* C5: move-constructing an obj_unique_lock or obj_shared_lock gives the
\* destination the source's ownership state and back-reference, leaves the
\* source not holding with a null back-reference and a ref() that throws,
\* and does not touch the lock; destroying a handle with a null
\* back-reference unlocks nothing, destroying the holding destination
\* unlocks the obj_mutex.
C5_MoveStep ==
    \A s \in Handles, d \in Handles :
        /\ (UniqueMoveCtor(s, d) \/ SharedMoveCtor(s, d)) =>
              /\ hnd'[d] = hnd[s]
              /\ ~hnd'[s].owns /\ hnd'[s].pm = Null /\ hnd'[s].om = Null
              /\ AccessResult("ref", hnd'[s]) = "throw"
              /\ mtx' = mtx
        /\ (UniqueDtor(s) \/ SharedDtor(s)) =>
              /\ hnd[s].om = Null => mtx' = mtx
              /\ Holding(hnd[s]) =>
                    mtx' = HUnlockM(hnd[s].kind, mtx, hnd[s].pm) /\ mtx' # mtx

\* a moved-from handle never owns
C5_MovedFromIdle ==
    \A h \in Handles : (Movable(h) /\ hnd[h].om = Null) => ~hnd[h].owns

C5_MoveTransfersOwnership == [][C5_MoveStep]_vars /\ []C5_MovedFromIdle

\* a holding handle has just been move-constructed from a source that is
\* still there, moved-from
C5_Witness ==
    /\ ev.op = "move_ctor" /\ Holding(hnd[ev.h])
    /\ \E s \in Handles : s # ev.h /\ Movable(s) /\ hnd[s].om = Null

\* ----------------------------------------------------------------------
\* C6: the lock of every obj_mutex is held exactly by the holders there
\* are (one exclusive holder when it is locked exclusively, as many shared
\* holders as its shared count), so nothing is released twice and nothing
\* stays locked once every handle is gone; and the destructor of an
\* obj_unique_lock or obj_shared_lock changes the lock if and only if the
\* handle owns it, by exactly one release.
C6_Accounting ==
    \A o \in Objs :
        /\ mtx[o].excl <=> ExclHeld(o)
        /\ Cardinality(ExclHolders(o)) + Cardinality(CopyHolders(o)) <= 1
        /\ mtx[o].shared = Cardinality(SharedHolders(o))

C6_DtorStep ==
    \A h \in Handles :
        (UniqueDtor(h) \/ SharedDtor(h)) =>
            /\ mtx' # mtx <=> hnd[h].owns
            /\ hnd[h].owns => mtx' = HUnlockM(hnd[h].kind, mtx, hnd[h].pm)
            /\ hnd'[h] = NoHandle

C6_DtorReleasesIffHolding == []C6_Accounting /\ [][C6_DtorStep]_vars

\* a deferred handle was destroyed while another holder held the same lock
C6_Witness ==
    /\ ev.op = "dtor" /\ ev.res = "nothing" /\ ev.o # Null
    /\ ExclHolders(ev.o) # {}

\* ----------------------------------------------------------------------
\* C7: while there is an exclusive holder of an obj_mutex, an exclusive
\* try_lock() or try_to_lock construction on it reports failure, an
\* exclusive lock() or immediate-mode construction on it suspends and a
\* suspended one stays suspended; and if the lock becomes available again
\* and again, a suspended exclusive acquirer eventually gets it.
C7_ExclStep ==
    \A o \in Objs, h \in Handles :
        ExclHeld(o) =>
            /\ (OmTryLock(h, o) \/ UniqueTry(h, o)) => ev'.res = "false"
            /\ (UniqueTry(h, o) \/ (hnd[h].pm = o /\ UniqueTryLock(h) /\ ~hnd[h].owns))
                  => ev'.res = "false" /\ ~hnd'[h].owns
            /\ \A t \in Threads :
                  /\ (GuardCtor(t, h, o) \/ UniqueCtor(t, h, o) \/ OmLock(t, h, o))
                        => WaitsExcl(t, o)' /\ hnd' = hnd /\ mtx' = mtx
                  /\ (hnd[h].pm = o /\ ~hnd[h].owns /\ UniqueLock(t, h))
                        => WaitsExcl(t, o)' /\ hnd' = hnd /\ mtx' = mtx
                  /\ WaitsExcl(t, o) => pc'[t] = pc[t]

C7_Eventually ==
    \A t \in 1..NThreads, o \in 1..NObj :
        []<>CanLock(mtx[o]) => (WaitsExcl(t, o) ~> ~WaitsExcl(t, o))

C8_SharedStep ==
    \A o \in Objs, h \in Handles :
        LET sharedTry == \/ OmTryLockShared(h, o) \/ SharedTry(h, o)
                         \/ (hnd[h].pm = o /\ ~hnd[h].owns /\ SharedTryLock(h))
            exclTry == \/ OmTryLock(h, o) \/ UniqueTry(h, o)
                       \/ (hnd[h].pm = o /\ ~hnd[h].owns /\ UniqueTryLock(h))
        IN /\ (~ExclHeld(o) /\ sharedTry) => ev'.res = "true" /\ h \in SharedHolders(o)'
           /\ (SharedHolders(o) # {} /\ exclTry) => ev'.res = "false" /\ mtx' = mtx
           /\ (ExclHeld(o) /\ sharedTry) => ev'.res = "false" /\ mtx' = mtx

C8_SharedCoexist == [][C8_SharedStep]_vars

\* two shared holders of one obj_mutex at the same time, the second one
\* having come in by a try
C8_Witness ==
    /\ ev.op \in {"om.try_lock_shared", "try_to_lock", "try_lock"} /\ ev.res = "true"
    /\ Cardinality(SharedHolders(ev.o)) >= 2

\* ----------------------------------------------------------------------
\* C9: when a holding obj_lock_guard, obj_unique_lock or obj_shared_lock
\* stops holding (unlock(), destruction, also of a handle that was moved
\* into) and no holder of the obj_mutex is left, try_lock() would succeed,
\* and a try_lock() called with no holder does succeed and holds the lock.
Released(o) ==
    \E h \in Handles :
        /\ hnd[h].kind \in {"guard", "unique", "shared"}
        /\ Holding(hnd[h]) /\ hnd[h].pm = o
        /\ ~(Holding(hnd[h]) /\ hnd[h].pm = o)'

C9_ReleaseStep ==
    \A o \in Objs :
        /\ (Released(o) /\ NoHolder(o)') => obj_mutex_try_lock(o)'
        /\ \A h \in Handles :
              (NoHolder(o) /\ OmTryLock(h, o)) =>
                  ev'.res = "true" /\ ExclHolders(o)' = {h}

C9_TryLockAfterRelease == [][C9_ReleaseStep]_vars

\* try_lock() has succeeded right after the release of a handle
C9_Witness ==
    ev.op = "om.try_lock" /\ ev.res = "true" /\ ev.after = "release"

\* ----------------------------------------------------------------------
\* C10: a copy constructor whose source is held exclusively does not take
\* the source's lock, and so does not read its value, before the hold is
\* released; the new obj_mutex holds the value the source had when the copy
\* constructor took the source's lock; a write to one of the two does not
\* change the value of the other.
C10_CopyWaits ==
    \A t \in Threads :
        (pc[t].op = "copy.wait" /\ ExclHolders(pc[t].o) # {}) => pc'[t] = pc[t]

C10_CopyValue ==
    ev.op = "copy_ctor" => v[ev.o] = ev.val

C10_Independent ==
    \A h \in Handles, via \in Accessors, x \in Values :
        (Write(h, via, x) /\ Holding(hnd[h])) =>
            \A o \in Objs : o # hnd[h].om => v'[o] = v[o]

C10_CopyConstructBlocksAndSnapshots ==
    [][C10_CopyWaits /\ C10_Independent]_vars /\ []C10_CopyValue

\* ----------------------------------------------------------------------
\* C11: a copy or move assignment between two distinct obj_mutex reads the
\* source's value and writes the destination's in one step, taken in a
\* state where both locks are locked exclusively and the assigning thread
\* is the only holder of either: no guard holds the source or the
\* destination, and no other thread is inside a constructor or assignment
\* that has locked one of them.
Assigning(t) == pc[t].op \in {"asg.lock", "asg.try", "asg.backoff", "asg.locked"}
SoleHolder(t, o) ==
    /\ mtx[o].excl /\ mtx[o].shared = 0
    /\ CopyHolders(o) = {t}
    /\ \A h \in Handles : ~(hnd[h].owns /\ hnd[h].pm = o)

C11_BothLocked ==
    \A t \in Threads :
        pc[t].op = "asg.locked" =>
            pc[t].o # pc[t].d /\ SoleHolder(t, pc[t].o) /\ SoleHolder(t, pc[t].d)

C11_ValueStep ==
    \A t \in Threads :
        /\ AsgBody(t) => v'[pc[t].d] = v[pc[t].o] /\ pc[t].op = "asg.locked"
        /\ (pc[t].op = "asg.locked" /\ ~AsgBody(t)) =>
              v'[pc[t].d] = v[pc[t].d] /\ v'[pc[t].o] = v[pc[t].o]

C11_AssignHoldsBoth == []C11_BothLocked /\ [][C11_ValueStep]_vars

\* an assignment has completed while another thread was suspended in the
\* construction of a guard on its destination
C11_Witness ==
    /\ ev.op \in AssignModes /\ ev.res = "ok"
    /\ \E t \in Threads : pc[t].op = "ctor" /\ pc[t].o = ev.o

\* ----------------------------------------------------------------------
\* C13: a thread that waits in the blocking lock() of an assignment holds
\* neither of the two locks: whichever of the two is locked at that moment
\* is held by someone else.
C13_WaitsEmptyHanded ==
    \A t \in Threads :
        pc[t].op = "asg.lock" =>
            \A o \in {pc[t].o, pc[t].d} :
                mtx[o].excl => ExclHolders(o) # {} \/ CopyHolders(o) \ {t} # {}

\* a thread that took the first lock, found the second busy and gave the
\* first back now waits for the second, which is still busy
C13_Witness ==
    \E t \in Threads :
        /\ pc[t].op = "asg.lock" /\ pc[t].first = pc[t].o
        /\ ~CanLock(mtx[pc[t].first]) /\ CanLock(mtx[pc[t].d])

\* ----------------------------------------------------------------------
\* C12: among threads that hold no guard and assign obj_mutex instances to
\* one another in opposite or cyclic order, there is always an assigning
\* thread that can take its next step, and every assignment that was
\* started completes.
C12_CanStep ==
    (\E t \in Threads : Assigning(t)) => ENABLED <<\E t \in Threads : AsgStep(t)>>_vars

C12_Completes ==
    \A t \in 1..RingSize : Assigning(t) ~> ~Assigning(t)

C14_MoveStep ==
    \A t \in Threads :
        /\ \A s \in Objs, d \in Objs :
              MoveCtor(t, s, d) =>
                  /\ v' = v
                  /\ IF CanLock(mtx[s]) THEN pc'[t].op = "move.locked" /\ mtx'[s].excl
                                        ELSE pc'[t].op = "move.wait" /\ mtx' = mtx
        /\ (pc[t].op = "move.wait" /\ ~CanLock(mtx[pc[t].o])) => pc'[t] = pc[t]
        /\ MoveCtorBody(t) =>
              /\ SoleHolder(t, pc[t].o)
              /\ v'[pc[t].d] = v[pc[t].o]
              /\ v'[pc[t].o] \in MovedOut(v[pc[t].o]) /\ pc[t].o \in moved'
        /\ (AsgBody(t) /\ pc[t].k = "move") =>
              /\ SoleHolder(t, pc[t].o) /\ SoleHolder(t, pc[t].d)
              /\ v'[pc[t].d] = v[pc[t].o]
              /\ v'[pc[t].o] \in MovedOut(v[pc[t].o]) /\ pc[t].o \in moved'
        /\ (pc[t].op \in {"move.wait", "move.locked", "asg.lock", "asg.try", "asg.backoff"}
              /\ pc'[t] # pc[t] /\ ~MoveCtorBody(t)) => v' = v

C14_MoveTakesLocks == [][C14_MoveStep]_vars

\* a non-empty value has just been moved into an obj_mutex, and a source
\* that was moved from is empty
C14_Witness ==
    /\ ev.op \in {"move_ctor_om", "move"} /\ ev.res = "ok"
    /\ ev.val # Empty /\ v[ev.o] = ev.val
    /\ \E s \in moved : alive[s] /\ v[s] = Empty

\* ----------------------------------------------------------------------
\* C15: after a move assignment the destination holds the value the source
\* held, and an access through a guard to the value of an obj_mutex that
\* has been moved from (and not been given a value since) ends in an error.
C15_Moved ==
    \A t \in Threads :
        (AsgBody(t) /\ pc[t].k = "move") => v'[pc[t].d] = v[pc[t].o]

C15_AccessFails ==
    (Accessed /\ hnd[ev.h].kind = "guard" /\ ev.o \in moved) => ev.res = "throw"

C15_MovedFromAccessFails == [][C15_Moved]_vars /\ []C15_AccessFails

\* ----------------------------------------------------------------------
\* C16: an assignment of an obj_mutex to itself, by copy or by move,
\* returns at once and changes nothing: not the value, not the lock, not
\* the calling thread's position, whoever holds the lock.
C16_SelfStep ==
    \A t \in Threads, mode \in AssignModes, x \in Objs :
        Assign(t, mode, FALSE, x, x) =>
            /\ ev'.res = "self"
            /\ UNCHANGED <<alive, moved, mtx, v, hnd, pc>>

C16_SelfAssignNoOp == [][C16_SelfStep]_vars

\* a self-assignment has returned while another thread holds a guard on
\* the same obj_mutex
C16_Witness ==
    /\ ev.op \in AssignModes /\ ev.res = "self"
    /\ \E h \in ExclHolders(ev.o) : hnd[h].kind = "guard"

\* ----------------------------------------------------------------------
\* C17: the deferred-mode constructor of obj_unique_lock and obj_shared_lock
\* returns at once whatever the state of the lock, leaves the lock and all
\* threads as they are and yields a handle that does not own and whose
\* back-reference is the obj_mutex; on such a handle a lock() that returns,
\* a try_lock() that answers true and a timed try that gets the lock in
\* time leave it holding, a try_lock() that answers false and a timed try
\* that runs out of time leave it not holding, the lock untouched.
Deferred(h) == NotHolding(h) /\ hnd[h].pm # Null
C17_DeferStep ==
    \A h \in Handles :
        /\ \A o \in Objs :
              (UniqueDefer(h, o) \/ SharedDefer(h, o)) =>
                  /\ mtx' = mtx /\ pc' = pc
                  /\ ~hnd'[h].owns /\ hnd'[h].pm = o /\ hnd'[h].om = o
                  /\ \A g \in Handles \ {h} : hnd'[g] = hnd[g]
        /\ (Deferred(h) /\ (UniqueTryLock(h) \/ SharedTryLock(h))) =>
              IF ev'.res = "true"
              THEN Holding(hnd'[h]) /\ mtx' = HLockM(hnd[h].kind, mtx, hnd[h].pm)
              ELSE hnd' = hnd /\ mtx' = mtx
        /\ \A t \in Threads :
              /\ (Deferred(h) /\ (UniqueTryLockFor(t, h) \/ SharedTryLockFor(t, h))) =>
                    IF HCanLock(hnd[h].kind, mtx[hnd[h].pm])
                    THEN Holding(hnd'[h]) /\ ev'.res = "true"
                    ELSE hnd' = hnd /\ mtx' = mtx /\ pc'[t].op = "try_for"
              /\ (pc[t].h = h /\ TryForWake(t)) => Holding(hnd'[h]) /\ ev'.res = "true"
              /\ (pc[t].h = h /\ TryForTimeout(t)) =>
                    hnd' = hnd /\ mtx' = mtx /\ Deferred(h)' /\ ev'.res = "false"
              /\ (Deferred(h) /\ (UniqueLock(t, h) \/ SharedLock(t, h)) /\ pc'[t] = Idle) =>
                    Holding(hnd'[h])
              /\ (pc[t].h = h /\ LockWake(t)) => Holding(hnd'[h])

C17_DeferredNeverAcquires == [][C17_DeferStep]_vars

\* a deferred handle has just been constructed on an obj_mutex that another
\* holder has locked exclusively
C17_Witness ==
    /\ ev.op = "defer_lock" /\ Deferred(ev.h)
    /\ ExclHolders(ev.o) # {}

\* ----------------------------------------------------------------------
\* C18: try_lock(), try_lock_shared() and the try-mode constructors return
\* without suspending any thread, in every state of the lock; they answer
\* true exactly when the lock was available in the requested mode, and
\* then the caller holds it; when they answer false the lock and every
\* other holder are as before.
C18_TryStep ==
    \A h \in Handles, o \in Objs :
        LET excl == OmTryLock(h, o) \/ UniqueTry(h, o) \/ (Deferred(h) /\ hnd[h].pm = o /\ UniqueTryLock(h))
            shrd == OmTryLockShared(h, o) \/ SharedTry(h, o) \/ (Deferred(h) /\ hnd[h].pm = o /\ SharedTryLock(h))
        IN /\ (excl \/ shrd) =>
                /\ pc' = pc
                /\ ev'.res \in {"true", "false"}
                /\ ev'.res = "false" =>
                      /\ mtx' = mtx
                      /\ \A g \in Handles : hnd[g].owns => hnd'[g] = hnd[g]
                      /\ \A g \in Handles : ~(hnd'[g].owns /\ ~hnd[g].owns)
           /\ excl => /\ ev'.res = "true" <=> CanLock(mtx[o])
                      /\ ev'.res = "true" => h \in ExclHolders(o)' /\ mtx' = StdLock(mtx, o)
           /\ shrd => /\ ev'.res = "true" <=> CanLockShared(mtx[o])
                      /\ ev'.res = "true" => h \in SharedHolders(o)' /\ mtx' = StdLockShared(mtx, o)

C18_TryNeverBlocks == [][C18_TryStep]_vars

\* a try-mode constructor has answered not-holding while the lock was held
\* and another thread was suspended waiting for the same lock
C18_Witness ==
    /\ ev.op = "try_to_lock" /\ ev.res = "false" /\ ~hnd[ev.h].owns
    /\ ~CanLock(mtx[ev.o])
    /\ \E t \in Threads : ~IsIdle(t) /\ pc[t].o = ev.o

\* ----------------------------------------------------------------------
\* C19: the adopt-mode constructor, called on a hold that the caller took
\* with lock() (obj_unique_lock) or lock_shared() (obj_shared_lock), does
\* not touch the lock and suspends nobody; the handle owns, its ref()
\* answers the value, and every owning handle stands for one hold of its
\* own mode, which its unlock() or destructor gives back once.
C19_Matching ==
    \A h \in Handles :
        (Movable(h) /\ hnd[h].owns) =>
            IF hnd[h].kind = "unique"
            THEN mtx[hnd[h].pm].excl /\ ExclHolders(hnd[h].pm) = {h}
            ELSE ~mtx[hnd[h].pm].excl /\ mtx[hnd[h].pm].shared = Cardinality(SharedHolders(hnd[h].pm))

C19_AdoptStep ==
    \A h \in Handles :
        /\ (UniqueAdopt(h) \/ SharedAdopt(h)) =>
              /\ mtx' = mtx /\ pc' = pc
              /\ Holding(hnd'[h]) /\ hnd'[h].pm = hnd[h].pm
              /\ hnd'[h].kind = (IF hnd[h].kind = "rawx" THEN "unique" ELSE "shared")
              /\ AccessResult("ref", hnd'[h]) = "ok"
        /\ (Holding(hnd[h]) /\ (UniqueDtor(h) \/ UniqueUnlock(h))) =>
              mtx' = StdUnlock(mtx, hnd[h].pm) /\ ~hnd'[h].owns
        /\ (Holding(hnd[h]) /\ (SharedDtor(h) \/ SharedUnlock(h))) =>
              mtx' = StdUnlockShared(mtx, hnd[h].pm) /\ ~hnd'[h].owns

C19_AdoptRecordsHolding == []C19_Matching /\ [][C19_AdoptStep]_vars

\* a handle has just adopted the caller's hold
C19_Witness ==
    /\ ev.op = "adopt_lock" /\ Holding(hnd[ev.h])
    /\ ~CanLock(mtx[ev.o])

\* ----------------------------------------------------------------------
\* C20: the constructor of obj_lock_guard returns only with the lock held
\* exclusively and waits as long as it is not available; a guard that
\* exists holds the lock, alone; nothing but its destructor changes a
\* guard, and the destructor unlocks.
C20_GuardHolds ==
    \A h \in Handles :
        hnd[h].kind = "guard" =>
            /\ Holding(hnd[h])
            /\ mtx[hnd[h].pm].excl /\ mtx[hnd[h].pm].shared = 0
            /\ ExclHolders(hnd[h].pm) = {h} /\ CopyHolders(hnd[h].pm) = {}

C20_GuardStep ==
    \A h \in Handles :
        /\ \A t \in Threads, o \in Objs :
              GuardCtor(t, h, o) =>
                  IF CanLock(mtx[o])
                  THEN hnd'[h] = Handle("guard", o, TRUE) /\ mtx' = StdLock(mtx, o)
                  ELSE hnd' = hnd /\ mtx' = mtx /\ pc'[t].op = "ctor"
        /\ \A t \in Threads :
              (pc[t].op = "ctor" /\ pc[t].k = "guard" /\ ~CanLock(mtx[pc[t].o])) =>
                  pc'[t] = pc[t]
        /\ (hnd[h].kind = "guard" /\ hnd'[h] # hnd[h]) =>
              /\ GuardDtor(h)
              /\ hnd'[h] = NoHandle
              /\ mtx' = StdUnlock(mtx, hnd[h].pm) /\ CanLock(mtx'[hnd[h].pm])

C20_GuardHoldsForLife == []C20_GuardHolds /\ [][C20_GuardStep]_vars

\* a guard has been destroyed and the lock it held is free
C20_Witness ==
    ev.op = "guard_dtor" /\ CanLock(mtx[ev.o]) /\ hnd[ev.h] = NoHandle

\* ----------------------------------------------------------------------
\* C21: a bounded-wait acquisition (try_lock_for, try_lock_until,
\* try_lock_shared_for, try_lock_shared_until of obj_mutex, try_lock_for /
\* try_lock_until of a deferred handle) always returns; it answers true at
\* once, the caller holding, when the lock is available in the requested
\* mode, and otherwise waits; a wait ends with true only in a state where
\* the lock is available, the caller then holding it, and with false the
\* caller not holding and the lock as it was; so while an incompatible
\* holder keeps the lock the only way out is false.
InTimed(t) == pc[t].op \in {"try_for", "om.try_for"}
HoldsAs(k, h, o) == hnd[h].owns /\ hnd[h].pm = o /\ IsShared(hnd[h].kind) = IsShared(k)

C21_TimedStep ==
    \A t \in Threads :
        /\ \A h \in Handles, o \in Objs, k \in {"rawx", "raws", "unique", "shared"} :
              LET call == CASE k = "rawx" -> OmTryLockFor(t, h, o)
                            [] k = "raws" -> OmTryLockSharedFor(t, h, o)
                            [] k = "unique" -> Deferred(h) /\ hnd[h].pm = o /\ UniqueTryLockFor(t, h)
                            [] k = "shared" -> Deferred(h) /\ hnd[h].pm = o /\ SharedTryLockFor(t, h)
              IN call =>
                    IF HCanLock(k, mtx[o])
                    THEN /\ ev'.res = "true" /\ pc'[t] = Idle
                         /\ HoldsAs(k, h, o)' /\ mtx' = HLockM(k, mtx, o)
                    ELSE InTimed(t)' /\ mtx' = mtx /\ hnd' = hnd
        /\ \A h \in Handles, o \in Objs :
              (InTimed(t) /\ pc[t].h = h /\ pc[t].o = o /\ pc'[t] # pc[t]) =>
                  /\ pc'[t] = Idle
                  /\ ev'.op \in {"try_lock_for", "om.try_lock_for"} /\ ev'.h = h
                  /\ IF ev'.res = "true"
                     THEN /\ HCanLock(pc[t].k, mtx[o])
                          /\ mtx' = HLockM(pc[t].k, mtx, o)
                          /\ hnd'[h].owns /\ hnd'[h].pm = o
                          /\ IsShared(hnd'[h].kind) = IsShared(pc[t].k)
                     ELSE /\ ev'.res = "false"
                          /\ mtx' = mtx /\ hnd' = hnd
                          /\ ~hnd[h].owns

C21_Returns == \A t \in 1..NThreads : InTimed(t) ~> IsIdle(t)

C21_TimedAlwaysReturns == [][C21_TimedStep]_vars /\ C21_Returns

\* try_lock_for() or try_lock_shared_for() of obj_mutex has answered false
\* while the holder that was in its way is still holding
C21_Witness ==
    /\ ev.op = "om.try_lock_for" /\ ev.res = "false"
    /\ hnd[ev.h] = NoHandle
    /\ ExclHolders(ev.o) # {} \/ SharedHolders(ev.o) # {}

\* ----------------------------------------------------------------------
\* C22: in the waiter/setter scenario, while the waiter is suspended in
\* cv.wait the lock is not held on its behalf (it is locked exactly when
\* another thread has a guard on it); the predicate is evaluated, and the
\* value written, only with the waiter's handle holding the lock, alone,
\* and ref() answering; and every run, under any interleaving in which the
\* threads keep running, ends with the waiter returned, the setter through
\* and the value equal to 1, which is what the setter's last ref() reads.
WaiterAlone ==
    /\ mtx[TheOm].excl
    /\ Holding(hnd[WaiterLock])
    /\ \A h \in Handles \ {WaiterLock} : hnd[h] = NoHandle

C22_WaitInv ==
    /\ pc[Waiter].op \in {"w.pred", "w.wait", "w.write", "w.return"} => WaiterAlone
    /\ pc[Waiter].op \in {"w.blocked", "w.woken"} =>
          (mtx[TheOm].excl <=> \E h \in Handles \ {WaiterLock} : hnd[h].kind = "guard")
    /\ ev.op = "pred" => ev.res = "ok"
    /\ ~At(Waiter, "w.failed")
    /\ At(Waiter, "w.write") => v[TheOm] = Wanted
    /\ At(Setter, "s.done") => At(Waiter, "w.done") /\ v[TheOm] = Answer /\ ev.val = Answer

C22_Ends == <>[](At(Waiter, "w.done") /\ At(Setter, "s.done") /\ v[TheOm] = Answer)

LockedWrite(o) ==
    \/ \E h \in Handles, via \in Accessors, x \in Values :
          /\ Write(h, via, x)
          /\ Holding(hnd[h]) /\ hnd[h].om = o /\ ~IsShared(hnd[h].kind)
    \/ \E t \in Threads :
          /\ AsgBody(t) \/ MoveCtorBody(t)
          /\ t \in CopyHolders(o)

C23_ValueStep ==
    /\ \A o \in Objs :
          /\ \A x \in Values : Construct(o, x) => v'[o] = x
          /\ (alive[o] /\ alive'[o] /\ v'[o] # v[o]) => LockedWrite(o)
    /\ \A h \in Handles, via \in Accessors :
          (Read(h, via) /\ Holding(hnd[h])) =>
              ev'.res = "ok" /\ ev'.val = v[hnd[h].om]

C23_ReadsLastLockedWrite == [][C23_ValueStep]_vars

\* ----------------------------------------------------------------------
\* C24: for every lock type, naming a member of obj_mutex either does not
\* compile or is the call of the lock's own function, so nothing is left to
\* fail at run time; lock, try_lock and unlock are always there;
\* try_lock_for, try_lock_until, try_lock_shared_for, try_lock_shared_until
\* and native_handle are members exactly when the lock type has the
\* function of that name, lock_shared, try_lock_shared and unlock_shared
\* exactly when it has lock_shared; and for a lock type that has the shared
\* functions all three or not at all, a member exists exactly when the lock
\* type supports the operation.
SharedComplete(M) ==
    LET sh == {"lock_shared", "try_lock_shared", "unlock_shared"}
    IN sh \subseteq M \/ sh \cap M = {}

C24_GatedMembers ==
    \A o \in Objs :
        (ev.op \in OmMembers /\ ev.o = o) =>
            LET M == mtx[o].has
                f == ev.op
            IN /\ ev.res \in {"no member", "ill-formed", "delegates"}
               /\ f \in {"lock", "try_lock", "unlock"} => ev.res = "delegates"
               /\ f \in {"try_lock_for", "try_lock_until", "try_lock_shared_for",
                         "try_lock_shared_until", "native_handle"} =>
                     (ev.res = "delegates" <=> f \in M) /\ (ev.res = "no member" <=> f \notin M)
               /\ f \in {"lock_shared", "try_lock_shared", "unlock_shared"} =>
                     (ev.res = "no member" <=> "lock_shared" \notin M)
               /\ SharedComplete(M) =>
                     /\ ev.res # "ill-formed"
                     /\ ev.res = "no member" <=> (f \in MtxMembers /\ f \notin M)

\* try_lock_shared has been named on an obj_mutex over a timed lock type
\* without shared acquisition, and is no member
C24_Witness ==
    /\ ev.op = "try_lock_shared" /\ ev.res = "no member"
    /\ mtx[ev.o].has = {"try_lock_for", "try_lock_until", "native_handle"}

\* ----------------------------------------------------------------------
\* C25: a move assignment between two distinct obj_unique_locks or
\* obj_shared_locks gives the destination the source's ownership state and
\* back-reference and leaves the source not owning with a null
\* back-reference; the lock the destination was holding, of the same or of
\* another obj_mutex, is given back by exactly one release in its mode, and
\* no other lock changes; a destination that was not holding releases
\* nothing; a move assignment of a handle to itself changes neither handle
\* nor lock.
C25_AssignStep ==
    \A s \in Handles, d \in Handles :
        (UniqueMoveAssign(s, d) \/ SharedMoveAssign(s, d)) =>
            IF s = d
            THEN hnd' = hnd /\ mtx' = mtx /\ ev'.res = "self"
            ELSE /\ hnd'[d] = hnd[s]
                 /\ ~hnd'[s].owns /\ hnd'[s].pm = Null /\ hnd'[s].om = Null
                 /\ \A g \in Handles \ {s, d} : hnd'[g] = hnd[g]
                 /\ IF hnd[d].owns
                    THEN /\ mtx' = HUnlockM(hnd[d].kind, mtx, hnd[d].pm)
                         /\ mtx' # mtx
                         /\ ev'.res = "released"
                    ELSE mtx' = mtx /\ ev'.res = "nothing"

\* after it, the locks are held exactly by the holders there are
C25_NothingLost ==
    ev.op = "move_assign" =>
        \A o \in Objs :
            /\ mtx[o].excl <=> ExclHeld(o)
            /\ mtx[o].shared = Cardinality(SharedHolders(o))

C25_MoveAssignReleasesOnce == [][C25_AssignStep]_vars /\ []C25_NothingLost

\* a holding handle has been move-assigned onto a destination that was
\* holding the lock of another obj_mutex, which is free now
C25_Witness ==
    /\ ev.op = "move_assign" /\ ev.res = "released"
    /\ Holding(hnd[ev.h]) /\ hnd[ev.h].pm # ev.o
    /\ NoHolder(ev.o) /\ mtx[ev.o] = MtxFree

\* ----------------------------------------------------------------------
\* C26: in every state reached by the constructors, move construction,
\* move assignment, swap, lock, try_lock and unlock of obj_unique_lock and
\* obj_shared_lock, the back-reference of a handle is null exactly when the
\* handle has no lock, and otherwise its lock is the lock of the obj_mutex
\* the back-reference points to, which is alive; so a handle that owns has
\* a back-reference and its ref() answers the value of the obj_mutex whose
\* lock it holds; swap exchanges the two handles whole and leaves every
\* lock as it is.
C26_BackRef ==
    \A h \in Handles :
        Movable(h) =>
            /\ hnd[h].om = Null <=> hnd[h].pm = Null
            /\ hnd[h].om = hnd[h].pm
            /\ hnd[h].om # Null => alive[hnd[h].om]
            /\ hnd[h].owns =>
                  /\ hnd[h].om # Null
                  /\ AccessResult("ref", hnd[h]) = "ok"
                  /\ h \in ExclHolders(hnd[h].om) \cup SharedHolders(hnd[h].om)

C26_SwapStep ==
    \A a \in Handles, b \in Handles :
        (UniqueSwap(a, b) \/ SharedSwap(a, b)) =>
            /\ hnd'[a] = hnd[b] /\ hnd'[b] = hnd[a]
            /\ \A g \in Handles \ {a, b} : hnd'[g] = hnd[g]
            /\ mtx' = mtx /\ pc' = pc /\ v' = v

C26_BackRefMatchesLock == []C26_BackRef /\ [][C26_SwapStep]_vars

\* a holding handle has been swapped with one that has no lock
C26_Witness ==
    /\ ev.op = "swap" /\ Holding(hnd[ev.h])
    /\ \E g \in Handles : g # ev.h /\ Movable(g) /\ hnd[g].om = Null /\ hnd[g].pm = Null

\* ----------------------------------------------------------------------
\* C27: the copy and move constructors and assignments of an obj_mutex over
\* a reader/writer lock take the locks exclusively: while there is a shared
\* holder of the source (or, for an assignment, of the lock it is about to
\* take) the operation does not get that lock, and a suspended one stays
\* suspended; while an operation has a lock, the lock is locked exclusively
\* with no shared holder, a try_lock_shared() or try_lock() on it answers
\* false and a lock_shared() on it suspends.
C27_Exclusive ==
    \A o \in Objs :
        CopyHolders(o) # {} =>
            /\ mtx[o].excl /\ mtx[o].shared = 0
            /\ SharedHolders(o) = {} /\ ExclHolders(o) = {}

C27_CopyStep ==
    \A o \in Objs, t \in Threads :
        /\ SharedHolders(o) # {} =>
              /\ \A d \in Objs :
                    (CopyCtor(t, o, d) \/ MoveCtor(t, o, d)) =>
                        pc'[t].op \in {"copy.wait", "move.wait"} /\ mtx' = mtx
              /\ (pc[t].op \in {"copy.wait", "move.wait"} /\ pc[t].o = o) => pc'[t] = pc[t]
              /\ (pc[t].op = "asg.lock" /\ pc[t].first = o) => pc'[t] = pc[t]
              /\ (pc[t].op = "asg.try" /\ AsgOther(t) = o) => pc'[t].op # "asg.locked"
        /\ CopyHolders(o) # {} =>
              /\ \A h \in Handles :
                    (OmTryLockShared(h, o) \/ OmTryLock(h, o)) =>
                        ev'.res = "false" /\ mtx' = mtx /\ hnd' = hnd
              /\ \A h \in Handles :
                    OmLockShared(t, h, o) =>
                        pc'[t].op = "om.lock_shared" /\ mtx' = mtx /\ hnd' = hnd
              /\ (pc[t].op = "om.lock_shared" /\ pc[t].o = o) => pc'[t] = pc[t]

C27_CopyLocksExclusively == []C27_Exclusive /\ [][C27_CopyStep]_vars

\* a try_lock_shared() has answered false on an obj_mutex that a copy or
\* move operation has locked, while that operation is going on
C27_Witness ==
    /\ ev.op = "om.try_lock_shared" /\ ev.res = "false"
    /\ CopyHolders(ev.o) # {}
    /\ mtx[ev.o].excl

\* ----------------------------------------------------------------------
\* C28: a copy or move constructor or assignment of obj_mutex takes a lock
\* only when it is free, and the step that completes it leaves the locks it
\* had free again, as they were before it took them, and every other lock
\* untouched; a copy leaves the source's value as it was; a new obj_mutex
\* comes out with a lock of its own that is unlocked; and no lock is ever
\* left locked without a holder.
Completes(t) == CopyCtorBody(t) \/ MoveCtorBody(t) \/ AsgBody(t)

C28_CompleteStep ==
    \A t \in Threads :
        /\ \A o \in Objs :
              (t \notin CopyHolders(o) /\ t \in CopyHolders(o)') =>
                  mtx[o] = MtxFree /\ mtx'[o] = StdLock(mtx, o)[o]
        /\ \A s \in Objs, d \in Objs :
              (pc[t].o = s /\ pc[t].d = d /\ Completes(t)) =>
                  /\ mtx[s].excl /\ mtx'[s] = MtxFree /\ mtx'[d] = MtxFree
                  /\ alive'[d] /\ alive'[s]
                  /\ \A o \in Objs \ {s, d} : mtx'[o] = mtx[o]
                  /\ \A o \in Objs : t \notin CopyHolders(o)'
                  /\ (CopyCtorBody(t) \/ (AsgBody(t) /\ pc[t].k = "copy")) =>
                        v'[s] = v[s] /\ v'[d] = v[s]
                  /\ (CopyCtorBody(t) \/ MoveCtorBody(t)) => ~alive[d]
        /\ \A o \in Objs, x \in Values : Construct(o, x) => mtx'[o] = MtxFree

C28_NoLockLeft ==
    \A o \in Objs :
        (CopyHolders(o) = {} /\ ExclHolders(o) = {} /\ SharedHolders(o) = {}) =>
            mtx[o] = MtxFree

C28_OperationsReleaseLocks == [][C28_CompleteStep]_vars /\ []C28_NoLockLeft

\* a copy constructor has completed: the new obj_mutex holds the source's
\* value, its lock is free, and so is the source's
C28_Witness ==
    /\ ev.op = "copy_ctor" /\ alive[ev.o] /\ v[ev.o] = ev.val
    /\ \A o \in Objs : alive[o] /\ mtx[o] = MtxFree
====
